---- MODULE Spec2Model ----
(***************************************************************************)
(* Number-crossword generator (jes5199/numbercrosswords).                  *)
(*                                                                         *)
(* The module models the equation engine (equation.py), the Puzzle store   *)
(* (puzzle.py), the solver (solver.py), the creator (creator.py), the      *)
(* backtracking generator (generator.py) and the grower (grower.py).       *)
(*                                                                         *)
(* Encoding of Python values:                                              *)
(*   - a character is a TLA+ string; a character list is a sequence;       *)
(*   - `str | None` uses the string None for the absent value;             *)
(*   - every other optional value is Nothing (<<>>) or Just(v) (<<v>>);    *)
(*   - a token is a record [kind, val] with kind "int", "op" or "eq".      *)
(***************************************************************************)
EXTENDS Integers, Sequences, FiniteSets, TLC

VARIABLES
    \* ---- equation engine session (SpecEq) ----
    chars,      \* the character list handed to is_valid_equation
    src,        \* Nothing, or Just(the numbers/operators chars was formatted from)
    verdict,    \* Nothing, or Just(the boolean is_valid_equation returned)
    epc,        \* "input" while chars is being built, "checked" after the call
    \* ---- a puzzle and its solution (SpecSolve, SpecCreate) ----
    shape,      \* the grid of the Shape the puzzles are bound to
    input,      \* cells of the puzzle handed to create_puzzle (solved_puzzle)
    puzzle,     \* cells of the puzzle being worked on (puzzle)
    solution,   \* cells of the full solution (solution)
    counted,    \* Nothing, or Just([max_count, solutions]) of the last count_solutions
    \* ---- create_puzzle (SpecCreate) ----
    cpc,        \* "idle", "loop", "done" or "raised"
    min_clues,  \* the effective min_clues (after the default)
    randomize,  \* the randomize argument
    todo,       \* the cells of removal_order the loop has not visited yet: a
                \* set, or the rest of the shuffled list in SpecDifficulty
    removed_cells, \* the list removed_cells
    created,    \* Nothing, or Just(the PuzzleCreationResult)
    difficulty, \* Nothing, or Just(the difficulty argument of
                \* create_puzzle_with_difficulty)
    \* ---- generate_solved_puzzle (SpecGen) ----
    gen_pc,     \* "idle", "enter" (a call of solve is starting), "loop" (the
                \* innermost solve is in its for loop), "ret" (a solve has
                \* just returned), "done"
    gen_randomize, \* the randomize argument
    max_attempts,  \* the max_attempts argument
    hash_order, \* Nothing while the model leaves the iteration order of a
                \* set of strings open at each list(candidates), or Just(k)
                \* when the string hashes of the process give order k
    rng,        \* the process-wide random source: [seed, drawn], the value
                \* it was seeded with and the number of shuffles drawn since
    first_run,  \* Nothing, or Just(what generate_solved_puzzle returned in
                \* the first of two processes)
    gen_cells,  \* the local cells = puzzle.get_active_cells()
    cell_to_runs,  \* the local cell_to_runs = build_cell_to_runs_map(shape)
    attempts,   \* the counter attempts
    call_idx,   \* the argument cell_idx of the call that is starting
    stack,      \* the solve calls in their for loop, outermost first: each
                \* [cell_idx, candidates (the part of the list not yet tried)]
    returned,   \* the value the last solve returned
    generated,  \* Nothing, or Just(what generate_solved_puzzle returned:
                \* the puzzle's cells, or None)
    \* ---- grow_puzzle (SpecGrow) ----
    grow_pc,    \* "idle", "attempt" (top of the attempt loop), "grow" (top of
                \* the loop over eq_num), "done" or "raised"
    num_equations, \* the num_equations argument
    equation_length, \* the equation_length argument: <<l>> for the single
                \* value l, <<min_len, max_len>> for a tuple
    lengths,    \* the list lengths
    attempts_left, \* the iterations the attempt loop has left
    grow_cells, \* puzzle.cells of the GrowingPuzzle of this attempt
    equations,  \* puzzle.equations: a list of [direction, positions]
    cell_directions, \* puzzle.cell_directions
    eq_num,     \* the loop variable eq_num
    grown,      \* Nothing, or Just(what grow_puzzle returned: Nothing for
                \* None, or Just([cells, equations, cell_directions]))
    \* ---- Shape and Puzzle objects (SpecShape, SpecPuzzle) ----
    shape_heap, \* the Shape objects: shape_heap[i] is the grid of Shape i
    dict_heap,  \* the dict objects: dict_heap[i] is the mapping of dict i
    orig,       \* the Puzzle p: [shape |-> a Shape id, cells |-> a dict id]
    copied,     \* Nothing, or Just(the Puzzle q = p.copy())
    last_call   \* Nothing, or Just([op, on, value]) of the last query since
                \* the objects changed: the method, the object it was called
                \* on and what it returned

eqVars == <<chars, src, verdict, epc>>

puzVars == <<shape, input, puzzle, solution, counted>>

crVars == <<cpc, min_clues, randomize, todo, removed_cells, created, difficulty>>

genVars == <<gen_pc, gen_randomize, max_attempts, hash_order, rng, first_run, gen_cells,
            cell_to_runs,
            attempts, call_idx, stack, returned, generated>>

growVars == <<grow_pc, num_equations, equation_length, lengths, attempts_left, grow_cells, equations,
              cell_directions, eq_num, grown>>

objVars == <<shape_heap, dict_heap, orig, copied, last_call>>

vars == <<eqVars, puzVars, crVars, genVars, growVars, objVars>>

(***************************************************************************)
(* Bounds of the model.                                                    *)
(***************************************************************************)
MaxDigit   == 2    \* digits 0..MaxDigit are typed and used as operands of input puzzles
MaxLen     == 4    \* longest raw character list typed into the engine
MaxOps     == 2    \* most operators in a formatted (well-formed) equation
MaxOperand == 2    \* operands of formatted equations are 0..MaxOperand
MaxRhs     == 4    \* single-number sides of formatted equations are 0..MaxRhs
MaxBlank   == 2    \* most cells a solver session leaves blank at once
MaxCap     == 3    \* count_solutions is called with max_count in 1..MaxCap
MaxAttempts == 7   \* generate_solved_puzzle is called with max_attempts 0..MaxAttempts
MaxMinClues == 5    \* create_puzzle is called with min_clues None or 4..MaxMinClues
MaxEquations == 2  \* grow_puzzle is called with num_equations 0..MaxEquations
MaxGrowAttempts == 1 \* grow_puzzle is called with max_attempts 0..MaxGrowAttempts
MaxHeight  == 5    \* rows a growth may span
MaxWidth   == 7    \* columns a growth may span
MaxShapeRows == 3  \* a Shape handed to get_all_runs has at most MaxShapeRows rows
MaxShapeCols == 3  \* each of its rows has at most MaxShapeCols cells
MaxShapeCells == 9 \* and its rows have at most MaxShapeCells cells in all
MaxCrossAttempts == 9    \* generate_solved_puzzle on cross-small gets a budget of 9..MaxCrossAttempts
MaxSeed    == 3    \* random.seed is called with 0..MaxSeed
MaxRand    == 2    \* random.randint(lo, hi) draws from lo..MaxRand, and lo in any case

(***************************************************************************)
(* Optional values.                                                        *)
(***************************************************************************)
None == "None"
Nothing == <<>>
Just(v) == <<v>>
IsJust(o) == Len(o) = 1
FromJust(o) == o[1]

(***************************************************************************)
(* equation.py                                                             *)
(***************************************************************************)
DigitStr == <<"0", "1", "2", "3", "4", "5", "6", "7", "8", "9">>

DIGIT_CHARS == {DigitStr[i] : i \in 1..10}

EQUALS_CHAR == "="

\* the dict OPERATOR_CHARS: its keys are DOMAIN OPERATOR_CHARS
OPERATOR_CHARS ==
    [c \in {"+", "-", "×", "*", "÷", "/"} |->
        CASE c = "+" -> "ADD"
          [] c = "-" -> "SUB"
          [] c \in {"×", "*"} -> "MUL"
          [] c \in {"÷", "/"} -> "DIV"]

IntTok(n) == [kind |-> "int", val |-> n]
OpTok(o) == [kind |-> "op", val |-> o]
EqTok == [kind |-> "eq", val |-> "="]

\* a variant whose division truncates instead of failing (a seeded fault, for sensitivity analysis)
apply_truncating(op, a, b) ==
    CASE op = "ADD" -> Just(a + b)
      [] op = "SUB" -> Just(a - b)
      [] op = "MUL" -> Just(a * b)
      [] op = "DIV" -> IF b = 0 THEN Nothing ELSE Just(a \div b)

\* Operator.apply: Nothing for a division that is not exact or is by zero
apply(op, a, b) ==
    CASE op = "ADD" -> Just(a + b)
      [] op = "SUB" -> Just(a - b)
      [] op = "MUL" -> Just(a * b)
      [] op = "DIV" -> IF b = 0 \/ a % b # 0 THEN Nothing ELSE Just(a \div b)

\* int(c) for a digit character
DigitVal(c) == (CHOOSE i \in 1..10 : DigitStr[i] = c) - 1

\* the while loop of evaluate_side from index i with the running result
RECURSIVE EvalLoop(_, _, _)
EvalLoop(tokens, i, result) ==
    IF i > Len(tokens) THEN Just(result)
    ELSE IF i + 1 > Len(tokens) THEN Nothing
    ELSE LET op == tokens[i]
             operand == tokens[i + 1]
         IN IF op.kind # "op" \/ operand.kind # "int" THEN Nothing
            ELSE LET r == apply(op.val, result, operand.val)
                 IN IF r = Nothing THEN Nothing
                    ELSE EvalLoop(tokens, i + 2, FromJust(r))

\* a variant that folds from the right (a seeded fault, for sensitivity analysis)
RECURSIVE EvalLoopRight(_, _)
EvalLoopRight(tokens, i) ==
    IF tokens[i].kind # "int" THEN Nothing
    ELSE IF i = Len(tokens) THEN Just(tokens[i].val)
    ELSE IF i + 1 >= Len(tokens) THEN Nothing
    ELSE LET op == tokens[i + 1]
             rest == EvalLoopRight(tokens, i + 2)
         IN IF op.kind # "op" \/ rest = Nothing THEN Nothing
            ELSE apply(op.val, tokens[i].val, FromJust(rest))

evaluate_side_right(tokens) ==
    IF tokens = <<>> THEN Nothing ELSE EvalLoopRight(tokens, 1)

evaluate_side(tokens) ==
    IF tokens = <<>> THEN Nothing
    ELSE IF tokens[1].kind # "int" THEN Nothing
    ELSE EvalLoop(tokens, 2, tokens[1].val)

\* ParsedEquation.is_valid on the record [left_tokens, right_tokens]
is_valid(parsed) ==
    LET left_val == evaluate_side(parsed.left_tokens)
        right_val == evaluate_side(parsed.right_tokens)
    IN IF left_val = Nothing \/ right_val = Nothing THEN FALSE
       ELSE FromJust(left_val) = FromJust(right_val)

\* the while loop of tokenize from index i (1-based) with the tokens so far;
\* num is Nothing, or Just(value of the digits accumulated so far)
RECURSIVE TokLoop(_, _, _, _)
TokLoop(cs, i, tokens, num) ==
    IF i > Len(cs)
    THEN Just(IF IsJust(num) THEN Append(tokens, IntTok(FromJust(num))) ELSE tokens)
    ELSE LET c == cs[i] IN
         IF c \in DIGIT_CHARS
         THEN TokLoop(cs, i + 1, tokens,
                      Just((IF IsJust(num) THEN FromJust(num) ELSE 0) * 10 + DigitVal(c)))
         ELSE LET flushed == IF IsJust(num) THEN Append(tokens, IntTok(FromJust(num)))
                             ELSE tokens
              IN IF c \in DOMAIN OPERATOR_CHARS
                 THEN TokLoop(cs, i + 1, Append(flushed, OpTok(OPERATOR_CHARS[c])), Nothing)
                 ELSE IF c = EQUALS_CHAR
                 THEN TokLoop(cs, i + 1, Append(flushed, EqTok), Nothing)
                 ELSE Nothing

tokenize(cs) == TokLoop(cs, 1, <<>>, Nothing)

SelectKind(tokens, keepEq) ==
    SelectSeq(tokens, LAMBDA t : (t.kind = "eq") = keepEq)

\* a variant that splits at the first equals sign whatever their number
\* (a seeded fault, for sensitivity analysis)
parse_equation_first_equals(cs) ==
    LET tk == tokenize(cs) IN
    IF tk = Nothing THEN Nothing
    ELSE LET tokens == FromJust(tk)
             equals_indices == {i \in 1..Len(tokens) : tokens[i].kind = "eq"}
         IN IF equals_indices = {} THEN Nothing
            ELSE LET eq_idx == CHOOSE i \in equals_indices :
                                  \A j \in equals_indices : i <= j
                     left_tokens == SubSeq(tokens, 1, eq_idx - 1)
                     right_tokens == SubSeq(tokens, eq_idx + 1, Len(tokens))
                 IN IF left_tokens = <<>> \/ right_tokens = <<>> THEN Nothing
                    ELSE Just([left_tokens |-> SelectKind(left_tokens, FALSE),
                               right_tokens |-> SelectKind(right_tokens, FALSE)])

parse_equation(cs) ==
    LET tk == tokenize(cs) IN
    IF tk = Nothing THEN Nothing
    ELSE LET tokens == FromJust(tk)
             equals_indices == {i \in 1..Len(tokens) : tokens[i].kind = "eq"}
         IN IF Cardinality(equals_indices) # 1 THEN Nothing
            ELSE LET eq_idx == CHOOSE i \in equals_indices : TRUE
                     left_tokens == SubSeq(tokens, 1, eq_idx - 1)
                     right_tokens == SubSeq(tokens, eq_idx + 1, Len(tokens))
                 IN IF left_tokens = <<>> \/ right_tokens = <<>> THEN Nothing
                    ELSE Just([left_tokens |-> SelectKind(left_tokens, FALSE),
                               right_tokens |-> SelectKind(right_tokens, FALSE)])

\* the scan of has_leading_zeros from index i (1-based)
RECURSIVE LeadLoop(_, _)
LeadLoop(cs, i) ==
    IF i > Len(cs) THEN FALSE
    ELSE IF cs[i] \in DIGIT_CHARS
    THEN LET stop == CHOOSE j \in i..(Len(cs) + 1) :
                        /\ \A k \in i..(j - 1) : cs[k] \in DIGIT_CHARS
                        /\ (j = Len(cs) + 1 \/ cs[j] \notin DIGIT_CHARS)
             num_len == stop - i
         IN IF num_len > 1 /\ cs[i] = "0" THEN TRUE ELSE LeadLoop(cs, stop)
    ELSE LeadLoop(cs, i + 1)

\* a variant that never reports a leading zero (a seeded fault, for sensitivity analysis)
has_leading_zeros_never(cs) == FALSE

has_leading_zeros(cs) == LeadLoop(cs, 1)

is_valid_equation(cs) ==
    IF has_leading_zeros(cs) THEN FALSE
    ELSE LET parsed == parse_equation(cs)
         IN IF parsed = Nothing THEN FALSE ELSE is_valid(FromJust(parsed))

\* a variant without the rule on a zero result with a single operator
\* (a seeded fault, for sensitivity analysis)
is_interesting_equation_keeps_zero(cs) ==
    IF ~is_valid_equation(cs) THEN FALSE
    ELSE LET parsed == FromJust(parse_equation(cs))
             all_tokens == parsed.left_tokens \o parsed.right_tokens
         IN /\ \E i \in 1..Len(all_tokens) : all_tokens[i].kind = "op"
            /\ ~\E i \in 1..(Len(all_tokens) - 1) :
                   /\ all_tokens[i].kind = "op"
                   /\ all_tokens[i + 1].kind = "int"
                   /\ \/ all_tokens[i].val \in {"DIV", "MUL"} /\ all_tokens[i + 1].val = 1
                      \/ all_tokens[i].val \in {"ADD", "SUB"} /\ all_tokens[i + 1].val = 0
                      \/ all_tokens[i].val = "MUL" /\ all_tokens[i + 1].val = 0

is_interesting_equation(cs) ==
    IF ~is_valid_equation(cs) THEN FALSE
    ELSE LET parsed == FromJust(parse_equation(cs))
             all_tokens == parsed.left_tokens \o parsed.right_tokens
             operator_count ==
                 Cardinality({i \in 1..Len(all_tokens) : all_tokens[i].kind = "op"})
             result == evaluate_side(parsed.left_tokens)
         IN IF operator_count = 0 THEN FALSE
            ELSE IF \E i \in 1..(Len(all_tokens) - 1) :
                       /\ all_tokens[i].kind = "op"
                       /\ all_tokens[i + 1].kind = "int"
                       /\ \/ all_tokens[i].val \in {"DIV", "MUL"} /\ all_tokens[i + 1].val = 1
                          \/ all_tokens[i].val \in {"ADD", "SUB"} /\ all_tokens[i + 1].val = 0
                          \/ all_tokens[i].val = "MUL" /\ all_tokens[i + 1].val = 0
                 THEN FALSE
            ELSE IF result = Just(0) /\ operator_count = 1 THEN FALSE
            ELSE TRUE

(***************************************************************************)
(* shape.py: a Shape is its grid, a sequence of rows of booleans (rows may *)
(* differ in length).  Cells are <<row, col>> with 0-based coordinates.    *)
(***************************************************************************)
height(grid) == Len(grid)

RECURSIVE MaxRowLen(_, _)
MaxRowLen(grid, i) ==
    IF i > Len(grid) THEN 0
    ELSE LET rest == MaxRowLen(grid, i + 1)
         IN IF Len(grid[i]) > rest THEN Len(grid[i]) ELSE rest

width(grid) == IF grid = <<>> THEN 0 ELSE MaxRowLen(grid, 1)

is_active(grid, row, col) ==
    IF 0 <= row /\ row < Len(grid)
    THEN IF 0 <= col /\ col < Len(grid[row + 1]) THEN grid[row + 1][col + 1] ELSE FALSE
    ELSE FALSE

\* the inner loop of get_horizontal_runs over col_idx in range(len(row) + 1)
RECURSIVE HScan(_, _, _, _, _)
HScan(grid, row_idx, col_idx, run, runs) ==
    LET row == grid[row_idx + 1] IN
    IF col_idx > Len(row) THEN runs
    ELSE IF col_idx < Len(row) /\ row[col_idx + 1]
    THEN HScan(grid, row_idx, col_idx + 1, Append(run, <<row_idx, col_idx>>), runs)
    ELSE HScan(grid, row_idx, col_idx + 1, <<>>,
               IF Len(run) >= 3 THEN Append(runs, run) ELSE runs)

\* the outer loop: the runs of the rows from row_idx on, in order
RECURSIVE HRows(_, _)
HRows(grid, row_idx) ==
    IF row_idx >= Len(grid) THEN <<>>
    ELSE HScan(grid, row_idx, 0, <<>>, <<>>) \o HRows(grid, row_idx + 1)

get_horizontal_runs(grid) == HRows(grid, 0)

\* the inner loop of get_vertical_runs over row_idx in range(height + 1)
RECURSIVE VScan(_, _, _, _, _)
VScan(grid, col_idx, row_idx, run, runs) ==
    IF row_idx > height(grid) THEN runs
    ELSE IF row_idx < height(grid) /\ is_active(grid, row_idx, col_idx)
    THEN VScan(grid, col_idx, row_idx + 1, Append(run, <<row_idx, col_idx>>), runs)
    ELSE VScan(grid, col_idx, row_idx + 1, <<>>,
               IF Len(run) >= 3 THEN Append(runs, run) ELSE runs)

\* the outer loop: the runs of the columns from col_idx on, in order
RECURSIVE VCols(_, _)
VCols(grid, col_idx) ==
    IF col_idx >= width(grid) THEN <<>>
    ELSE VScan(grid, col_idx, 0, <<>>, <<>>) \o VCols(grid, col_idx + 1)

get_vertical_runs(grid) == VCols(grid, 0)

\* a variant that leaves out the vertical runs (a seeded fault, for sensitivity analysis)
get_all_runs_horizontal_only(grid) == get_horizontal_runs(grid)

get_all_runs(grid) == get_horizontal_runs(grid) \o get_vertical_runs(grid)

(***************************************************************************)
(* puzzle.py: a Puzzle is a Shape (grid) and the dict cells, a function    *)
(* from its keys to characters.                                            *)
(***************************************************************************)
\* the two strings of ALL_CHARS that stand where the multiplication and
\* division signs were meant (puzzle.py line 10 holds the two-character
\* strings U+0E23 U+0097 and U+0E23 U+0E17); each is named here by the hex
\* of its UTF-8 bytes.  Neither is a digit, an operator spelling or "=".
BAD_MUL == "E0B8A3C297"
BAD_DIV == "E0B8A3E0B897"

\* a variant with the multiplication and division signs (a seeded fault, for sensitivity analysis)
ALL_CHARS_with_signs == DigitStr \o <<"+", "-", "×", "÷", "=">>

\* list(DIGIT_CHARS) + [...]: the digits are listed in ascending order, one
\* of the orders the set may be iterated in
ALL_CHARS == DigitStr \o <<"+", "-", BAD_MUL, BAD_DIV, "=">>

EmptyCells == [k \in {} |-> None]

get_cell(grid, cells, row, col) ==
    IF ~is_active(grid, row, col) THEN None
    ELSE IF <<row, col>> \in DOMAIN cells THEN cells[<<row, col>>] ELSE None

set_cell(cells, row, col, value) ==
    IF value = None
    THEN [k \in (DOMAIN cells) \ {<<row, col>>} |-> cells[k]]
    ELSE [k \in (DOMAIN cells) \cup {<<row, col>>} |->
             IF k = <<row, col>> THEN value ELSE cells[k]]

get_run_values(grid, cells, run) ==
    [i \in 1..Len(run) |-> get_cell(grid, cells, run[i][1], run[i][2])]

is_run_complete(grid, cells, run) ==
    \A i \in 1..Len(run) : get_cell(grid, cells, run[i][1], run[i][2]) # None

is_run_valid(grid, cells, run) ==
    LET values == get_run_values(grid, cells, run)
    IN IF \E i \in 1..Len(values) : values[i] = None THEN FALSE
       ELSE is_valid_equation(values)

\* the active cells in reading order
\* the inner loop over col in range(width); w is shape.width
RECURSIVE ActiveInRow(_, _, _, _)
ActiveInRow(grid, row, col, w) ==
    IF col >= w THEN <<>>
    ELSE (IF is_active(grid, row, col) THEN <<(<<row, col>>)>> ELSE <<>>)
             \o ActiveInRow(grid, row, col + 1, w)

\* the outer loop over row in range(height)
RECURSIVE ActiveFrom(_, _, _)
ActiveFrom(grid, row, w) ==
    IF row >= height(grid) THEN <<>>
    ELSE ActiveInRow(grid, row, 0, w) \o ActiveFrom(grid, row + 1, w)

get_active_cells(grid) == ActiveFrom(grid, 0, width(grid))

is_complete(grid, cells) ==
    LET active == get_active_cells(grid)
    IN \A i \in 1..Len(active) : get_cell(grid, cells, active[i][1], active[i][2]) # None

\* the loop of Puzzle.is_valid over the runs of the shape
RunsAllValid(grid, cells, runs) ==
    \A i \in 1..Len(runs) :
        ~(is_run_complete(grid, cells, runs[i]) /\ ~is_run_valid(grid, cells, runs[i]))

puzzle_is_valid(grid, cells) == RunsAllValid(grid, cells, get_all_runs(grid))

\* a variant that only asks for valid runs (a seeded fault, for sensitivity analysis)
is_solved_valid_only(grid, cells) == puzzle_is_valid(grid, cells)

\* a variant that only asks for completeness (a seeded fault, for sensitivity analysis)
is_solved_complete_only(grid, cells) == is_complete(grid, cells)

is_solved(grid, cells) == is_complete(grid, cells) /\ puzzle_is_valid(grid, cells)

\* a variant of copy that hands out the same dict (a seeded fault, for sensitivity analysis)
copy_shared(heap, pz) == [heap |-> heap, puzzle |-> pz]

\* Puzzle.copy on the puzzle pz = [shape, cells] (object ids): a new dict
\* with the items of pz's dict, and a new Puzzle on the same Shape object
copy(heap, pz) ==
    [heap |-> Append(heap, heap[pz.cells]),
     puzzle |-> [shape |-> pz.shape, cells |-> Len(heap) + 1]]

InRun(run, cell) == \E i \in 1..Len(run) : run[i] = cell

\* build_cell_to_runs_map(shape), a function on the active cells; all_runs
\* is shape.get_all_runs()
build_cell_to_runs_map(grid, all_runs) ==
    LET active == get_active_cells(grid)
    IN [rc \in {active[i] : i \in 1..Len(active)} |->
           SelectSeq(all_runs, LAMBDA run : InRun(run, rc))]

(***************************************************************************)
(* generator.py: the structural pruning test                               *)
(***************************************************************************)
IsOperatorChar(c) == c \in DOMAIN OPERATOR_CHARS

\* a variant that looks only at neighbours in the run itself, so that a
\* blank between two filled cells hides nothing (a seeded fault, for sensitivity analysis)
could_be_valid_equation_adjacent(cs) ==
    LET filled == SelectSeq(cs, LAMBDA c : c # None)
        equals_count == Cardinality({i \in 1..Len(filled) : filled[i] = "="})
        none_count == Cardinality({i \in 1..Len(cs) : cs[i] = None})
    IN IF filled = <<>> THEN TRUE
       ELSE IF equals_count > 1 THEN FALSE
       ELSE IF equals_count = 0 /\ none_count = 0 THEN FALSE
       ELSE IF \E i \in 1..(Len(cs) - 1) :
                  /\ cs[i] # None /\ cs[i + 1] # None
                  /\ (IsOperatorChar(cs[i]) \/ cs[i] = "=")
                  /\ (IsOperatorChar(cs[i + 1]) \/ cs[i + 1] = "=")
            THEN FALSE
       ELSE IF cs[1] # None /\ (IsOperatorChar(cs[1]) \/ cs[1] = "=") THEN FALSE
       ELSE IF none_count = 0 /\ IsOperatorChar(filled[Len(filled)]) THEN FALSE
       ELSE TRUE

could_be_valid_equation(cs) ==
    LET filled == SelectSeq(cs, LAMBDA c : c # None)
        equals_count == Cardinality({i \in 1..Len(filled) : filled[i] = "="})
        none_count == Cardinality({i \in 1..Len(cs) : cs[i] = None})
    IN IF filled = <<>> THEN TRUE
       ELSE IF equals_count > 1 THEN FALSE
       ELSE IF equals_count = 0 /\ none_count = 0 THEN FALSE
       ELSE IF \E i \in 1..(Len(filled) - 1) :
                  \/ IsOperatorChar(filled[i]) /\ IsOperatorChar(filled[i + 1])
                  \/ IsOperatorChar(filled[i]) /\ filled[i + 1] = "="
                  \/ filled[i] = "=" /\ IsOperatorChar(filled[i + 1])
                  \/ filled[i] = "=" /\ filled[i + 1] = "="
            THEN FALSE
       ELSE IF IsOperatorChar(filled[1]) \/ filled[1] = "=" THEN FALSE
       ELSE IF none_count = 0 /\ IsOperatorChar(filled[Len(filled)]) THEN FALSE
       ELSE TRUE

(***************************************************************************)
(* solver.py                                                               *)
(***************************************************************************)
\* the check of all affected runs after a placement (solver.py 47-58)
PlacementValid(grid, cells, runs) ==
    \A i \in 1..Len(runs) :
        LET run_chars == get_run_values(grid, cells, runs[i])
        IN /\ could_be_valid_equation(run_chars)
           /\ (\A j \in 1..Len(run_chars) : run_chars[j] # None)
                 => is_valid_equation(run_chars)

empty_cells(grid, cells) ==
    SelectSeq(get_active_cells(grid),
              LAMBDA rc : get_cell(grid, cells, rc[1], rc[2]) = None)

\* the nested function solve of count_solutions.  ctx holds what the
\* closure captures (grid, the shape's runs, cell_to_runs, empty_cells,
\* max_count); the puzzle's cells and the counter solutions are threaded
\* through.  SolveCount is solve(cell_idx)
\* (cell_idx 1-based), SolveChars the loop over ALL_CHARS from index k.
\* Both return [stop, solutions, cells].
RECURSIVE SolveCount(_, _, _, _)
RECURSIVE SolveChars(_, _, _, _, _)
SolveCount(ctx, cell_idx, cells, solutions) ==
    IF solutions >= ctx.max_count
    THEN [stop |-> TRUE, solutions |-> solutions, cells |-> cells]
    ELSE IF cell_idx > Len(ctx.empty)
    THEN LET n == IF RunsAllValid(ctx.grid, cells, ctx.runs) THEN solutions + 1
                  ELSE solutions
         IN [stop |-> n >= ctx.max_count, solutions |-> n, cells |-> cells]
    ELSE SolveChars(ctx, cell_idx, 1, cells, solutions)

\* a variant of the loop that returns on a stop without clearing the cell
\* (a seeded fault, for sensitivity analysis)
SolveChars_no_restore(ctx, cell_idx, k, cells, solutions) ==
    IF k > Len(ALL_CHARS)
    THEN [stop |-> FALSE, solutions |-> solutions, cells |-> cells]
    ELSE LET row == ctx.empty[cell_idx][1]
             col == ctx.empty[cell_idx][2]
             placed == set_cell(cells, row, col, ALL_CHARS[k])
         IN IF PlacementValid(ctx.grid, placed, ctx.cell_to_runs[<<row, col>>])
            THEN LET r == SolveCount(ctx, cell_idx + 1, placed, solutions)
                 IN IF r.stop
                    THEN [stop |-> TRUE, solutions |-> r.solutions, cells |-> r.cells]
                    ELSE SolveChars(ctx, cell_idx, k + 1,
                                    set_cell(r.cells, row, col, None), r.solutions)
            ELSE SolveChars(ctx, cell_idx, k + 1, set_cell(placed, row, col, None), solutions)

SolveChars(ctx, cell_idx, k, cells, solutions) ==
    IF k > Len(ALL_CHARS)
    THEN [stop |-> FALSE, solutions |-> solutions, cells |-> cells]
    ELSE LET row == ctx.empty[cell_idx][1]
             col == ctx.empty[cell_idx][2]
             placed == set_cell(cells, row, col, ALL_CHARS[k])
         IN IF PlacementValid(ctx.grid, placed, ctx.cell_to_runs[<<row, col>>])
            THEN LET r == SolveCount(ctx, cell_idx + 1, placed, solutions)
                 IN IF r.stop
                    THEN [stop |-> TRUE, solutions |-> r.solutions,
                          cells |-> set_cell(r.cells, row, col, None)]
                    ELSE SolveChars(ctx, cell_idx, k + 1,
                                    set_cell(r.cells, row, col, None), r.solutions)
            ELSE SolveChars(ctx, cell_idx, k + 1, set_cell(placed, row, col, None), solutions)

\* count_solutions as [solutions, cells]: the count and the puzzle's cells
\* when it returns
count_solutions_run(grid, cells, max_count) ==
    LET empty == empty_cells(grid, cells) IN
    IF empty = <<>>
    THEN [solutions |-> IF is_solved(grid, cells) THEN 1 ELSE 0, cells |-> cells]
    ELSE LET all_runs == get_all_runs(grid)
             r == SolveCount([grid |-> grid, runs |-> all_runs,
                              cell_to_runs |-> build_cell_to_runs_map(grid, all_runs),
                              empty |-> empty, max_count |-> max_count],
                             1, cells, 0)
         IN [solutions |-> r.solutions, cells |-> r.cells]

count_solutions(grid, cells, max_count) ==
    count_solutions_run(grid, cells, max_count).solutions

has_unique_solution(grid, cells) == count_solutions(grid, cells, 2) = 1

has_unique_solution_run(g, cs) ==
    LET r == count_solutions_run(g, cs, 2)
    IN [unique |-> r.solutions = 1, cells |-> r.cells]

\* the nested function solve of find_all_solutions: FindSolve is
\* solve(cell_idx), FindChars its loop over ALL_CHARS from index k; found is
\* the list solutions (each entry the cells of puzzle.copy()).  Both return
\* [found, cells].
RECURSIVE FindSolve(_, _, _, _)
RECURSIVE FindChars(_, _, _, _, _)
FindSolve(ctx, cell_idx, cells, found) ==
    IF Len(found) >= ctx.max_count
    THEN [found |-> found, cells |-> cells]
    ELSE IF cell_idx > Len(ctx.empty)
    THEN [found |-> IF RunsAllValid(ctx.grid, cells, ctx.runs) THEN Append(found, cells)
                    ELSE found,
          cells |-> cells]
    ELSE FindChars(ctx, cell_idx, 1, cells, found)

FindChars(ctx, cell_idx, k, cells, found) ==
    IF k > Len(ALL_CHARS)
    THEN [found |-> found, cells |-> cells]
    ELSE LET row == ctx.empty[cell_idx][1]
             col == ctx.empty[cell_idx][2]
             placed == set_cell(cells, row, col, ALL_CHARS[k])
         IN IF PlacementValid(ctx.grid, placed, ctx.cell_to_runs[<<row, col>>])
            THEN LET r == FindSolve(ctx, cell_idx + 1, placed, found)
                 IN FindChars(ctx, cell_idx, k + 1, set_cell(r.cells, row, col, None), r.found)
            ELSE FindChars(ctx, cell_idx, k + 1, set_cell(placed, row, col, None), found)

\* the default of find_all_solutions' max_solutions
DefaultMaxSolutions == 100

\* find_all_solutions as [found, cells]: the list it returns and the
\* puzzle's cells when it returns
find_all_solutions_run(grid, cells, max_solutions) ==
    LET empty == empty_cells(grid, cells) IN
    IF empty = <<>>
    THEN [found |-> IF is_solved(grid, cells) THEN <<cells>> ELSE <<>>, cells |-> cells]
    ELSE LET all_runs == get_all_runs(grid)
         IN FindSolve([grid |-> grid, runs |-> all_runs,
                       cell_to_runs |-> build_cell_to_runs_map(grid, all_runs),
                       empty |-> empty, max_count |-> max_solutions],
                      1, cells, <<>>)

(***************************************************************************)
(* Inputs of the equation engine session.                                  *)
(***************************************************************************)
\* str(n) for n >= 0, as the f-strings of grower.py format operands
RECURSIVE ToChars(_)
ToChars(n) ==
    IF n < 10 THEN <<DigitStr[n + 1]>>
    ELSE Append(ToChars(n \div 10), DigitStr[(n % 10) + 1])

\* the characters a session types one at a time: the digits up to MaxDigit,
\* every operator spelling, the equals sign and one character outside the
\* alphabet
TypedChars ==
    {DigitStr[i + 1] : i \in 0..(IF MaxDigit < 9 THEN MaxDigit ELSE 9)}
        \cup DOMAIN OPERATOR_CHARS \cup {EQUALS_CHAR, "?"}

\* the canonical spelling of each operator (Operator enum values)
OpChar == [o \in {"ADD", "SUB", "MUL", "DIV"} |->
              CASE o = "ADD" -> "+" [] o = "SUB" -> "-"
                [] o = "MUL" -> "×" [] o = "DIV" -> "÷"]

\* a side: numbers nums[1..k+1] joined by operators ops[1..k]
Sides(k, maxNum) ==
    [nums : [1..(k + 1) -> 0..maxNum], ops : [1..k -> DOMAIN OpChar]]

RECURSIVE FormatFrom(_, _)
FormatFrom(side, i) ==
    IF i > Len(side.ops) THEN ToChars(side.nums[i])
    ELSE ToChars(side.nums[i]) \o <<OpChar[side.ops[i]]>> \o FormatFrom(side, i + 1)

FormatSide(side) == FormatFrom(side, 1)

FormatEquation(eq) == FormatSide(eq.left) \o <<EQUALS_CHAR>> \o FormatSide(eq.right)

SideOf(k) == Sides(k, IF k = 0 THEN MaxRhs ELSE MaxOperand)

\* the examples the documentation of the engine names
Examples ==
    { <<"2", "+", "3", "×", "4", "=", "2", "0">>,
      <<"2", "+", "3", "×", "4", "=", "1", "4">>,
      <<"2", "+", "3", "*", "4", "=", "2", "0">>,
      <<"0", "8", "=", "8">>,
      <<"0", "=", "0">>,
      <<"8", "=", "0", "8">>,
      <<"7", "÷", "2", "=", "3">>,
      <<"8", "÷", "2", "=", "4">>,
      <<"8", "/", "2", "=", "4">>,
      <<"8", "÷", "0", "=", "0">>,
      <<"8", "-", "8", "=", "0">>,
      <<"8", "-", "4", "-", "4", "=", "0">> }

EqIdle ==
    /\ chars = <<>>
    /\ src = Nothing
    /\ verdict = Nothing
    /\ epc = "input"

PuzIdle ==
    /\ shape = <<>>
    /\ input = EmptyCells
    /\ puzzle = EmptyCells
    /\ solution = EmptyCells
    /\ counted = Nothing

CrIdle ==
    /\ cpc = "idle"
    /\ min_clues = 0
    /\ randomize = FALSE
    /\ todo = {}
    /\ removed_cells = <<>>
    /\ created = Nothing
    /\ difficulty = Nothing

\* the random source before random.seed is called
Unseeded == [seed |-> 0, drawn |-> 0]

GenIdle ==
    /\ gen_pc = "idle"
    /\ gen_randomize = FALSE
    /\ max_attempts = 0
    /\ hash_order = Nothing
    /\ rng = Unseeded
    /\ first_run = Nothing
    /\ gen_cells = <<>>
    /\ cell_to_runs = <<>>
    /\ attempts = 0
    /\ call_idx = 0
    /\ stack = <<>>
    /\ returned = FALSE
    /\ generated = Nothing

GrowIdle ==
    /\ grow_pc = "idle"
    /\ num_equations = 0
    /\ equation_length = <<>>
    /\ lengths = <<>>
    /\ attempts_left = 0
    /\ grow_cells = EmptyCells
    /\ equations = <<>>
    /\ cell_directions = EmptyCells
    /\ eq_num = 0
    /\ grown = Nothing

ObjIdle ==
    /\ shape_heap = <<>>
    /\ dict_heap = <<>>
    /\ orig = Nothing
    /\ copied = Nothing
    /\ last_call = Nothing

EqInit == EqIdle /\ PuzIdle /\ CrIdle /\ GenIdle /\ GrowIdle /\ ObjIdle

\* the caller appends one character to the list it is building
TypeChar ==
    /\ epc = "input"
    /\ src = Nothing
    /\ Len(chars) < MaxLen
    /\ \E c \in TypedChars : chars' = Append(chars, c)
    /\ UNCHANGED <<src, verdict, epc, puzVars, crVars, genVars, growVars, objVars>>

\* the caller formats a well-formed equation from numbers and operators
FormatInput ==
    /\ epc = "input"
    /\ chars = <<>>
    /\ \E kl \in 0..MaxOps : \E kr \in 0..(MaxOps - kl) :
         \E l \in SideOf(kl) : \E r \in SideOf(kr) :
            /\ src' = Just([left |-> l, right |-> r])
            /\ chars' = FormatEquation([left |-> l, right |-> r])
    /\ UNCHANGED <<verdict, epc, puzVars, crVars, genVars, growVars, objVars>>

\* the caller takes one of the documented examples
LoadExample ==
    /\ epc = "input"
    /\ chars = <<>>
    /\ \E e \in Examples : chars' = e
    /\ verdict' = Nothing
    /\ epc' = "loaded"
    /\ UNCHANGED <<src, puzVars, crVars, genVars, growVars, objVars>>

\* is_valid_equation(chars)
Validate ==
    /\ epc \in {"input", "loaded"}
    /\ verdict' = Just(is_valid_equation(chars))
    /\ epc' = "checked"
    /\ UNCHANGED <<chars, src, puzVars, crVars, genVars, growVars, objVars>>

\* is_interesting_equation(chars)
Interest ==
    /\ epc \in {"input", "loaded"}
    /\ verdict' = Just(is_interesting_equation(chars))
    /\ epc' = "rated"
    /\ UNCHANGED <<chars, src, puzVars, crVars, genVars, growVars, objVars>>

EqNext == TypeChar \/ FormatInput \/ LoadExample \/ Validate \/ Interest

SpecEq == EqInit /\ [][EqNext]_vars

(***************************************************************************)
(* Puzzles the sessions work on.                                           *)
(***************************************************************************)
\* one row of five cells: one horizontal run
Row5 == << <<TRUE, TRUE, TRUE, TRUE, TRUE>> >>

\* a plus sign: one horizontal and one vertical run of three, crossing
Plus3 == << <<FALSE, TRUE>>, <<TRUE, TRUE, TRUE>>, <<FALSE, TRUE>> >>

\* a ragged shape: one run of three and one active cell in no run
Stray3 == << <<TRUE, TRUE, TRUE>>, <<>>, <<TRUE>> >>

Shapes == {Row5, Plus3, Stray3}

ActiveSet(g) == {<<r, c>> \in (0..(height(g) - 1)) \X (0..(width(g) - 1)) : is_active(g, r, c)}

\* the cell values of the equation alphabet
Alphabet == DIGIT_CHARS \cup {"+", "-", "×", "÷", "="}

\* the valid equations a op b = c and a = a with operands 0..MaxDigit
InputEquations ==
    {e \in {FormatEquation([left |-> l, right |-> r]) :
               l \in Sides(0, MaxDigit) \cup Sides(1, MaxDigit), r \in Sides(0, MaxDigit)} :
        is_valid_equation(e)}

\* the cells dict that holds the characters of e along the cells of run
AlongRun(run, e) ==
    [rc \in {run[i] : i \in 1..Len(run)} |->
        e[CHOOSE i \in 1..Len(run) : run[i] = rc]]

\* two cells dicts with distinct keys, joined
Joined(f, h) ==
    [rc \in DOMAIN f \cup DOMAIN h |-> IF rc \in DOMAIN f THEN f[rc] ELSE h[rc]]

EquationsOfLen(n) == {e \in InputEquations : Len(e) = n}

\* the solved puzzles the sessions start from
SolvedRow5 == {AlongRun(get_all_runs(Row5)[1], e) : e \in EquationsOfLen(5)}

SolvedPlus3 ==
    {f \in {Joined(AlongRun(get_all_runs(Plus3)[1], e), AlongRun(get_all_runs(Plus3)[2], v)) :
               e \in EquationsOfLen(3), v \in EquationsOfLen(3)} :
        is_solved(Plus3, f)}

SolvedStray3 ==
    {Joined(AlongRun(get_all_runs(Stray3)[1], e), [rc \in {<<2, 0>>} |-> v]) :
        e \in EquationsOfLen(3), v \in {"0", "+"}}

SolvedOn(g) ==
    CASE g = Row5 -> SolvedRow5
      [] g = Plus3 -> SolvedPlus3
      [] g = Stray3 -> SolvedStray3

NumBlank(g, cs) == Cardinality(ActiveSet(g) \ DOMAIN cs)

(***************************************************************************)
(* A solver session (SpecSolve): a solved puzzle, cells blanked and        *)
(* revealed again with set_cell, and calls of count_solutions.             *)
(***************************************************************************)
SolveInit ==
    /\ EqIdle /\ CrIdle /\ GenIdle /\ GrowIdle /\ ObjIdle
    /\ shape \in Shapes
    /\ solution \in SolvedOn(shape)
    /\ puzzle = solution
    /\ input = solution
    /\ counted = Nothing

\* puzzle.set_cell(row, col, None) on a filled cell
Blank ==
    /\ NumBlank(shape, puzzle) < MaxBlank
    /\ \E rc \in DOMAIN puzzle : puzzle' = set_cell(puzzle, rc[1], rc[2], None)
    /\ counted' = Nothing
    /\ UNCHANGED <<shape, input, solution, eqVars, crVars, genVars, growVars, objVars>>

\* puzzle.set_cell(row, col, solution.get_cell(row, col)) on a blank cell
Reveal ==
    /\ \E rc \in ActiveSet(shape) \ DOMAIN puzzle :
          puzzle' = set_cell(puzzle, rc[1], rc[2], get_cell(shape, solution, rc[1], rc[2]))
    /\ counted' = Nothing
    /\ UNCHANGED <<shape, input, solution, eqVars, crVars, genVars, growVars, objVars>>

\* count_solutions(puzzle, max_count)
Count ==
    /\ counted = Nothing
    /\ \E k \in 1..MaxCap :
          \E run \in {count_solutions_run(shape, puzzle, k)} :
             /\ counted' = Just([max_count |-> k, solutions |-> run.solutions])
             /\ puzzle' = run.cells
    /\ UNCHANGED <<shape, input, solution, eqVars, crVars, genVars, growVars, objVars>>

SolveNext == Blank \/ Reveal \/ Count

SpecSolve == SolveInit /\ [][SolveNext]_vars

(***************************************************************************)
(* creator.py (SpecCreate)                                                 *)
(***************************************************************************)
Max(a, b) == IF a >= b THEN a ELSE b

Min(a, b) == IF a <= b THEN a ELSE b

\* a variant of the loop test that lets one more cell go (a seeded fault, for sensitivity analysis)
cannot_remove_more_strict(total_cells, removed, min) ==
    total_cells - Len(removed) < min

\* the test before each removal (creator.py 56)
cannot_remove_more(total_cells, removed, min) ==
    total_cells - Len(removed) <= min

\* a variant of the removal attempt that leaves the cell blank when the
\* removal is rejected (a seeded fault, for sensitivity analysis)
try_remove_no_restore(g, cs, removed, rc) ==
    LET blanked == set_cell(cs, rc[1], rc[2], None)
        u == has_unique_solution_run(g, blanked)
    IN [cells |-> u.cells,
        removed_cells |-> IF u.unique THEN Append(removed, rc) ELSE removed]

\* one removal attempt (creator.py 59-68)
try_remove(g, cs, removed, rc) ==
    LET value == get_cell(g, cs, rc[1], rc[2])
        blanked == set_cell(cs, rc[1], rc[2], None)
        u == has_unique_solution_run(g, blanked)
    IN IF u.unique
       THEN [cells |-> u.cells, removed_cells |-> Append(removed, rc)]
       ELSE [cells |-> set_cell(u.cells, rc[1], rc[2], value), removed_cells |-> removed]

total_cells(g) == Len(get_active_cells(g))

\* the puzzles handed to create_puzzle: the solved ones, and for each of them
\* the puzzles with the last active cell blank or overwritten with "="
CreateInputs(g) ==
    LET active == get_active_cells(g)
        last == active[Len(active)]
    IN SolvedOn(g)
         \cup {set_cell(f, last[1], last[2], v) : f \in SolvedOn(g), v \in {None, "="}}

CreateInit ==
    /\ EqIdle /\ CrIdle /\ GenIdle /\ GrowIdle /\ ObjIdle
    /\ shape \in Shapes
    /\ input \in CreateInputs(shape)
    /\ puzzle = EmptyCells
    /\ solution = EmptyCells
    /\ counted = Nothing

\* create_puzzle(solved_puzzle, min_clues, randomize) on a solved puzzle, up
\* to the loop
CreateCall ==
    /\ cpc = "idle"
    /\ is_solved(shape, input)
    /\ puzzle' = input
    /\ solution' = input
    /\ \E m \in {Nothing} \cup {Just(n) : n \in 4..MaxMinClues} :
          min_clues' = IF m = Nothing THEN Max(3, total_cells(shape) \div 3)
                       ELSE FromJust(m)
    /\ randomize' \in BOOLEAN
    /\ todo' = ActiveSet(shape)
    /\ removed_cells' = <<>>
    /\ cpc' = "loop"
    /\ UNCHANGED <<shape, input, counted, created, difficulty, eqVars, genVars, growVars, objVars>>

\* create_puzzle on a puzzle that is not solved: ValueError
CreateRaise ==
    /\ cpc = "idle"
    /\ ~is_solved(shape, input)
    /\ cpc' = "raised"
    /\ UNCHANGED <<shape, input, puzzle, solution, counted, min_clues, randomize, difficulty,
                   todo, removed_cells, created, eqVars, genVars, growVars, objVars>>

\* the cells the loop may visit next: the first unvisited one in reading
\* order, or any unvisited one when removal_order was shuffled
NextInOrder ==
    IF randomize THEN todo
    ELSE LET active == get_active_cells(shape)
         IN {active[i] : i \in {i \in 1..Len(active) :
                /\ active[i] \in todo
                /\ \A j \in 1..(i - 1) : active[j] \notin todo}}

\* one iteration of the removal loop that attempts a removal
RemovalIteration ==
    /\ cpc = "loop"
    /\ ~cannot_remove_more(total_cells(shape), removed_cells, min_clues)
    /\ \E rc \in NextInOrder :
          \E r \in {try_remove(shape, puzzle, removed_cells, rc)} :
             /\ puzzle' = r.cells
             /\ removed_cells' = r.removed_cells
             /\ todo' = todo \ {rc}
    /\ UNCHANGED <<shape, input, solution, counted, cpc, min_clues, randomize, difficulty,
                   created, eqVars, genVars, growVars, objVars>>

\* the loop ends (break, or removal_order exhausted) and the result is built
CreateReturn ==
    /\ cpc = "loop"
    /\ todo = {} \/ cannot_remove_more(total_cells(shape), removed_cells, min_clues)
    /\ created' = Just([puzzle |-> puzzle,
                       solution |-> solution,
                       num_clues |-> total_cells(shape) - Len(removed_cells),
                       total_cells |-> total_cells(shape)])
    /\ cpc' = "done"
    /\ UNCHANGED <<shape, input, puzzle, solution, counted, min_clues, randomize, difficulty,
                   todo, removed_cells, eqVars, genVars, growVars, objVars>>

CreateNext == CreateCall \/ CreateRaise \/ RemovalIteration \/ CreateReturn

SpecCreate == CreateInit /\ [][CreateNext]_vars

(***************************************************************************)
(* generator.py (SpecGen): generate_solved_puzzle, one step per entry of   *)
(* solve, per candidate of its for loop and per return.                    *)
(***************************************************************************)
\* run.index((row, col)), 1-based
IndexIn(run, rc) == CHOOSE i \in 1..Len(run) : run[i] = rc

get_valid_chars_for_position(cs, pos) ==
    SelectSeq(ALL_CHARS,
              LAMBDA char :
                  LET test_chars == [cs EXCEPT ![pos] = char]
                  IN /\ could_be_valid_equation(test_chars)
                     /\ (\A j \in 1..Len(test_chars) : test_chars[j] # None)
                           => is_valid_equation(test_chars))

\* the set candidates of solve for the cell rc, whose runs are runs
candidates_for(grid, cells, runs, rc) ==
    {char \in {ALL_CHARS[k] : k \in 1..Len(ALL_CHARS)} :
        \A i \in 1..Len(runs) :
            LET valid_for_run ==
                    get_valid_chars_for_position(get_run_values(grid, cells, runs[i]),
                                                 IndexIn(runs[i], rc))
            IN \E k \in 1..Len(valid_for_run) : valid_for_run[k] = char}

Reverse(seq) == [i \in 1..Len(seq) |-> seq[Len(seq) + 1 - i]]

\* a variant that keeps two orders only (a seeded fault, for sensitivity analysis)
list_of_set_two_orders(S) ==
    LET asc == SelectSeq(ALL_CHARS, LAMBDA c : c \in S)
    IN {asc, Reverse(asc)}

\* the iteration orders of a set of strings that are kept: the order of
\* ALL_CHARS, its reverse, and the order of ALL_CHARS with the two strings
\* that are no single character moved to the front
HashOrders == {"ascending", "descending", "corrupted first"}

\* list(candidates) in a process whose string hashes give the order k
list_in_order(S, k) ==
    LET asc == SelectSeq(ALL_CHARS, LAMBDA c : c \in S)
    IN CASE k = "ascending" -> asc
         [] k = "descending" -> Reverse(asc)
         [] k = "corrupted first" ->
                SelectSeq(asc, LAMBDA c : c \in {BAD_MUL, BAD_DIV})
                    \o SelectSeq(asc, LAMBDA c : c \notin {BAD_MUL, BAD_DIV})

\* list(candidates): the iteration order of a set of strings is not fixed
\* by the language (it follows the string hashes)
list_of_set(S) == {list_in_order(S, k) : k \in HashOrders}

\* random.shuffle(candidates): two of the permutations are kept
shuffle(seq) == {seq, Reverse(seq)}

\* the orders in which solve may walk through its candidates
candidate_orders(S, rnd, order) ==
    LET lists == IF order = Nothing THEN list_of_set(S)
                 ELSE {list_in_order(S, FromJust(order))}
    IN IF rnd THEN UNION {shuffle(l) : l \in lists} ELSE lists

\* the check of all affected runs after a placement (generator.py 135-148)
GenPlacementValid(grid, cells, runs) ==
    \A i \in 1..Len(runs) :
        LET run_chars == get_run_values(grid, cells, runs[i])
        IN /\ could_be_valid_equation(run_chars)
           /\ (\A j \in 1..Len(run_chars) : run_chars[j] # None)
                 => is_valid_equation(run_chars)

\* a variant of the base case that stops one cell early
\* (a seeded fault, for sensitivity analysis)
all_cells_filled_early(idx, active) == idx + 1 >= Len(active)

\* the base case of solve: cell_idx >= len(cells)
all_cells_filled(idx, active) == idx >= Len(active)

\* a shape of one run of three
Row3 == << <<TRUE, TRUE, TRUE>> >>

\* the shapes generate_solved_puzzle is called on; the grid without rows
\* and a grid without active cells are among them
GenShapes == Shapes \cup {Row3, <<>>, << <<FALSE>> >>}

Top == stack[Len(stack)]

Pop == SubSeq(stack, 1, Len(stack) - 1)

\* the cell of the solve call frame
CellOf(frame) == gen_cells[frame.cell_idx + 1]

RunsOf(rc) == cell_to_runs[rc]

GenInit ==
    /\ EqIdle /\ CrIdle /\ GenIdle /\ GrowIdle /\ ObjIdle
    /\ shape \in GenShapes
    /\ input = EmptyCells
    /\ puzzle = EmptyCells
    /\ solution = EmptyCells
    /\ counted = Nothing

\* generate_solved_puzzle(shape, max_attempts, randomize) up to solve(0)
GenCall ==
    /\ gen_pc = "idle"
    /\ max_attempts' \in 0..MaxAttempts
    /\ gen_randomize' \in BOOLEAN
    /\ puzzle' = EmptyCells
    /\ gen_cells' = get_active_cells(shape)
    /\ cell_to_runs' = build_cell_to_runs_map(shape, get_all_runs(shape))
    /\ attempts' = 0
    /\ call_idx' = 0
    /\ gen_pc' = "enter"
    /\ UNCHANGED <<shape, input, solution, counted, hash_order, rng, first_run, stack, returned,
                   generated, eqVars, crVars, growVars, objVars>>

\* solve(cell_idx) with every cell filled: return True
SolveBase ==
    /\ gen_pc = "enter"
    /\ all_cells_filled(call_idx, gen_cells)
    /\ returned' = TRUE
    /\ gen_pc' = "ret"
    /\ UNCHANGED <<puzVars, gen_randomize, max_attempts, hash_order,
                   rng, first_run, gen_cells, cell_to_runs, attempts, call_idx, stack,
                   generated, eqVars, crVars, growVars, objVars>>

\* solve(cell_idx) that finds the budget used up: return False
SolveOverBudget ==
    /\ gen_pc = "enter"
    /\ ~all_cells_filled(call_idx, gen_cells)
    /\ attempts + 1 > max_attempts
    /\ attempts' = attempts + 1
    /\ returned' = FALSE
    /\ gen_pc' = "ret"
    /\ UNCHANGED <<puzVars, gen_randomize, max_attempts, hash_order,
                   rng, first_run, gen_cells, cell_to_runs, call_idx, stack,
                   generated, eqVars, crVars, growVars, objVars>>

\* solve(cell_idx) up to its for loop: the candidates are computed and
\* ordered
SolveCandidates ==
    /\ gen_pc = "enter"
    /\ ~all_cells_filled(call_idx, gen_cells)
    /\ attempts + 1 <= max_attempts
    /\ attempts' = attempts + 1
    /\ LET rc == gen_cells[call_idx + 1]
       IN \E order \in candidate_orders(candidates_for(shape, puzzle, RunsOf(rc), rc),
                                        gen_randomize, hash_order) :
             stack' = Append(stack, [cell_idx |-> call_idx, candidates |-> order])
    /\ gen_pc' = "loop"
    /\ UNCHANGED <<puzVars, gen_randomize, max_attempts, hash_order,
                   rng, first_run, gen_cells, cell_to_runs, call_idx, returned,
                   generated, eqVars, crVars, growVars, objVars>>

\* one pass of the for loop up to the recursive call: the next candidate is
\* placed and the affected runs are checked
TryCandidate ==
    /\ gen_pc = "loop"
    /\ Top.candidates # <<>>
    /\ LET rc == CellOf(Top)
           placed == set_cell(puzzle, rc[1], rc[2], Head(Top.candidates))
       IN \E valid \in {GenPlacementValid(shape, placed, RunsOf(rc))} :
             /\ puzzle' = IF valid THEN placed ELSE set_cell(placed, rc[1], rc[2], None)
             /\ gen_pc' = IF valid THEN "enter" ELSE "loop"
             /\ call_idx' = IF valid THEN Top.cell_idx + 1 ELSE call_idx
    /\ stack' = [stack EXCEPT ![Len(stack)].candidates = Tail(@)]
    /\ UNCHANGED <<shape, input, solution, counted, gen_randomize, max_attempts, hash_order,
                   rng, first_run, gen_cells, cell_to_runs,
                   attempts, returned, generated, eqVars, crVars, growVars, objVars>>

\* the for loop has run out of candidates: return False
LoopExhausted ==
    /\ gen_pc = "loop"
    /\ Top.candidates = <<>>
    /\ stack' = Pop
    /\ returned' = FALSE
    /\ gen_pc' = "ret"
    /\ UNCHANGED <<puzVars, gen_randomize, max_attempts, hash_order,
                   rng, first_run, gen_cells, cell_to_runs, attempts, call_idx,
                   generated, eqVars, crVars, growVars, objVars>>

\* the recursive call has returned into the for loop: True is passed on,
\* after False the cell is cleared and the loop goes on
InnerReturned ==
    /\ gen_pc = "ret"
    /\ stack # <<>>
    /\ IF returned
       THEN /\ stack' = Pop
            /\ UNCHANGED <<puzzle, gen_pc>>
       ELSE /\ puzzle' = set_cell(puzzle, CellOf(Top)[1], CellOf(Top)[2], None)
            /\ gen_pc' = "loop"
            /\ UNCHANGED stack
    /\ UNCHANGED <<shape, input, solution, counted, gen_randomize, max_attempts, hash_order,
                   rng, first_run, gen_cells, cell_to_runs,
                   attempts, call_idx, returned, generated, eqVars, crVars, growVars, objVars>>

\* solve(0) has returned: the puzzle if it returned True, None otherwise
GenReturn ==
    /\ gen_pc = "ret"
    /\ stack = <<>>
    /\ generated' = Just(IF returned THEN Just(puzzle) ELSE Nothing)
    /\ gen_pc' = "done"
    /\ UNCHANGED <<puzVars, gen_randomize, max_attempts, hash_order,
                   rng, first_run, gen_cells, cell_to_runs, attempts, call_idx, stack,
                   returned, eqVars, crVars, growVars, objVars>>

GenNext ==
    \/ GenCall \/ SolveBase \/ SolveOverBudget \/ SolveCandidates
    \/ TryCandidate \/ LoopExhausted \/ InnerReturned \/ GenReturn

SpecGen == GenInit /\ [][GenNext]_vars

(***************************************************************************)
(* Two processes (SpecRepro): random.seed(seed) and generate_solved_puzzle *)
(* in one process, then the same calls with the same arguments in a second *)
(* process, whose string hashes may differ.                                *)
(***************************************************************************)
\* random.shuffle(candidates) on the seeded source: the permutation is a
\* function of the seed and of the number of draws before it; of the two
\* permutations kept by shuffle, bit number drawn of the seed selects one
shuffle_seeded(seq, r) ==
    IF (r.seed \div (2 ^ r.drawn)) % 2 = 1 THEN Reverse(seq) ELSE seq

ReproShapes == {Row3, Stray3}

ReproInit ==
    /\ EqIdle /\ CrIdle /\ GrowIdle /\ ObjIdle
    /\ gen_pc = "idle"
    /\ gen_randomize = FALSE
    /\ max_attempts = 0
    /\ hash_order \in {Just(k) : k \in HashOrders}
    /\ rng = Unseeded
    /\ first_run = Nothing
    /\ gen_cells = <<>>
    /\ cell_to_runs = <<>>
    /\ attempts = 0
    /\ call_idx = 0
    /\ stack = <<>>
    /\ returned = FALSE
    /\ generated = Nothing
    /\ shape \in ReproShapes
    /\ input = EmptyCells
    /\ puzzle = EmptyCells
    /\ solution = EmptyCells
    /\ counted = Nothing

\* random.seed(seed), then generate_solved_puzzle(shape, max_attempts,
\* randomize) up to solve(0)
ReproFirstCall ==
    /\ gen_pc = "idle"
    /\ \E seed \in 0..MaxSeed : rng' = [seed |-> seed, drawn |-> 0]
    /\ max_attempts' \in 0..MaxAttempts
    /\ gen_randomize' \in BOOLEAN
    /\ puzzle' = EmptyCells
    /\ gen_cells' = get_active_cells(shape)
    /\ cell_to_runs' = build_cell_to_runs_map(shape, get_all_runs(shape))
    /\ attempts' = 0
    /\ call_idx' = 0
    /\ gen_pc' = "enter"
    /\ UNCHANGED <<shape, input, solution, counted, hash_order, first_run, stack, returned,
                   generated, eqVars, crVars, growVars, objVars>>

\* the first process is over; a second process, with string hashes of its
\* own, seeds the source with the same value and makes the same call
ReproSecondCall ==
    /\ gen_pc = "done"
    /\ first_run = Nothing
    /\ first_run' = generated
    /\ hash_order' \in {Just(k) : k \in HashOrders}
    /\ rng' = [seed |-> rng.seed, drawn |-> 0]
    /\ puzzle' = EmptyCells
    /\ gen_cells' = get_active_cells(shape)
    /\ cell_to_runs' = build_cell_to_runs_map(shape, get_all_runs(shape))
    /\ attempts' = 0
    /\ call_idx' = 0
    /\ generated' = Nothing
    /\ gen_pc' = "enter"
    /\ UNCHANGED <<shape, input, solution, counted, gen_randomize, max_attempts, stack,
                   returned, eqVars, crVars, growVars, objVars>>

\* solve(cell_idx) up to its for loop, with the candidates in the order of
\* this process and shuffled by the seeded source
SolveCandidatesSeeded ==
    /\ gen_pc = "enter"
    /\ ~all_cells_filled(call_idx, gen_cells)
    /\ attempts + 1 <= max_attempts
    /\ attempts' = attempts + 1
    /\ LET rc == gen_cells[call_idx + 1]
           listed == list_in_order(candidates_for(shape, puzzle, RunsOf(rc), rc),
                                   FromJust(hash_order))
       IN /\ stack' = Append(stack, [cell_idx |-> call_idx,
                                     candidates |-> IF gen_randomize
                                                    THEN shuffle_seeded(listed, rng)
                                                    ELSE listed])
          /\ rng' = IF gen_randomize THEN [rng EXCEPT !.drawn = @ + 1] ELSE rng
    /\ gen_pc' = "loop"
    /\ UNCHANGED <<puzVars, gen_randomize, max_attempts, hash_order, first_run, gen_cells,
                   cell_to_runs, call_idx, returned, generated, eqVars, crVars, growVars,
                   objVars>>

ReproNext ==
    \/ ReproFirstCall \/ ReproSecondCall \/ SolveBase \/ SolveOverBudget
    \/ SolveCandidatesSeeded \/ TryCandidate \/ LoopExhausted \/ InnerReturned
    \/ GenReturn

SpecRepro == ReproInit /\ [][ReproNext]_vars

(***************************************************************************)
(* The end-to-end scenario (SpecCross): generate_solved_puzzle on the      *)
(* preset shape cross-small, then create_puzzle(solved, min_clues=3).      *)
(***************************************************************************)
\* Shape.from_string(PRESET_SHAPES["cross-small"]).grid
cross_small ==
    << <<FALSE, FALSE, TRUE, FALSE, FALSE>>,
       <<FALSE, FALSE, TRUE, FALSE, FALSE>>,
       <<TRUE, TRUE, TRUE, TRUE, TRUE>>,
       <<FALSE, FALSE, TRUE, FALSE, FALSE>>,
       <<FALSE, FALSE, TRUE, FALSE, FALSE>> >>

CrossInit ==
    /\ EqIdle /\ CrIdle /\ GrowIdle /\ ObjIdle
    /\ gen_pc = "idle"
    /\ gen_randomize = FALSE
    /\ max_attempts = 0
    /\ hash_order \in {Just(k) : k \in HashOrders}
    /\ rng = Unseeded
    /\ first_run = Nothing
    /\ gen_cells = <<>>
    /\ cell_to_runs = <<>>
    /\ attempts = 0
    /\ call_idx = 0
    /\ stack = <<>>
    /\ returned = FALSE
    /\ generated = Nothing
    /\ shape = cross_small
    /\ input = EmptyCells
    /\ puzzle = EmptyCells
    /\ solution = EmptyCells
    /\ counted = Nothing

\* generate_solved_puzzle(shape, max_attempts, randomize) up to solve(0),
\* with a budget of at least one attempt per cell
CrossGenCall ==
    /\ gen_pc = "idle"
    /\ max_attempts' \in total_cells(shape)..MaxCrossAttempts
    /\ gen_randomize' \in BOOLEAN
    /\ puzzle' = EmptyCells
    /\ gen_cells' = get_active_cells(shape)
    /\ cell_to_runs' = build_cell_to_runs_map(shape, get_all_runs(shape))
    /\ attempts' = 0
    /\ call_idx' = 0
    /\ gen_pc' = "enter"
    /\ UNCHANGED <<shape, input, solution, counted, hash_order, rng, first_run, stack, returned,
                   generated, eqVars, crVars, growVars, objVars>>

\* create_puzzle(solved, min_clues=3, randomize=False) on the puzzle that
\* generate_solved_puzzle returned, up to the loop or to the ValueError
CrossCreateCall ==
    /\ cpc = "idle"
    /\ gen_pc = "done"
    /\ FromJust(generated) # Nothing
    /\ input' = FromJust(FromJust(generated))
    /\ IF is_solved(shape, input')
       THEN /\ puzzle' = input'
            /\ solution' = input'
            /\ min_clues' = 3
            /\ randomize' = FALSE
            /\ todo' = ActiveSet(shape)
            /\ removed_cells' = <<>>
            /\ cpc' = "loop"
       ELSE /\ cpc' = "raised"
            /\ UNCHANGED <<puzzle, solution, min_clues, randomize, todo, removed_cells>>
    /\ UNCHANGED <<shape, counted, created, difficulty, eqVars, genVars, growVars, objVars>>

CrossNext ==
    \/ CrossGenCall \/ SolveBase \/ SolveOverBudget \/ SolveCandidates
    \/ TryCandidate \/ LoopExhausted \/ InnerReturned \/ GenReturn
    \/ CrossCreateCall \/ RemovalIteration \/ CreateReturn

SpecCross == CrossInit /\ [][CrossNext]_vars

(***************************************************************************)
(* creator.py (SpecDifficulty): create_puzzle_with_difficulty.  The clue   *)
(* percentages are Python floats; a float is the number m * 2^-e, with the *)
(* 53-bit significand m held in four 16-bit limbs, least significant first.*)
(***************************************************************************)
\* the base of the limbs
Limb == 2 ^ 16

\* the dict clue_percentages: the doubles of the literals 0.50, 0.35 and 0.25
clue_percentages ==
    [easy |-> [m |-> <<0, 0, 0, 16>>, e |-> 53],
     medium |-> [m |-> <<26214, 26214, 26214, 22>>, e |-> 54],
     hard |-> [m |-> <<0, 0, 0, 16>>, e |-> 54]]

\* clue_percentages.get(difficulty, 0.35)
pct_of(dif) ==
    IF dif \in DOMAIN clue_percentages THEN clue_percentages[dif]
    ELSE clue_percentages["medium"]

RECURSIVE BitLen(_)
\* int.bit_length
BitLen(n) == IF n = 0 THEN 0 ELSE 1 + BitLen(n \div 2)

\* int(total * pct): the exact product total * m, rounded to 53 significant
\* bits (to nearest, ties to even) as the float multiplication does, then
\* truncated to an integer
int_of_product(total, pct) ==
    LET raw == [i \in 1..4 |-> total * pct.m[i]]
        p0 == raw[1] % Limb
        s1 == raw[2] + (raw[1] \div Limb)
        p1 == s1 % Limb
        s2 == raw[3] + (s1 \div Limb)
        p2 == s2 % Limb
        p3 == raw[4] + (s2 \div Limb)
        drop == BitLen(p3) - 5
        rem == p0 % (2 ^ drop)
        half == (2 ^ drop) \div 2
        odd == (p0 \div (2 ^ drop)) % 2 = 1
        up == drop > 0 /\ (rem > half \/ (rem = half /\ odd))
        q0 == p0 - rem + (IF up THEN 2 ^ drop ELSE 0)
        q3 == p3 + ((p2 + ((p1 + (q0 \div Limb)) \div Limb)) \div Limb)
    IN IF p3 = 0 THEN 0 ELSE q3 \div (2 ^ (pct.e - 48))

\* min_clues = max(3, int(total * pct))
difficulty_min_clues(total, dif) == Max(3, int_of_product(total, pct_of(dif)))

Difficulties == {"easy", "medium", "hard", "expert"}

\* a grid of 2 * n rows of 15 cells in which every third cell of each row
\* and of each column is inactive: 20 * n active cells and no run
PairGrid(n) == [r \in 1..(2 * n) |-> [c \in 1..15 |-> (r + c) % 3 # 0]]

\* the number of double rows of the largest such grid
MaxTens == 9

\* the small shapes, and the two largest of the grids without runs
DifficultyShapes == Shapes \cup {PairGrid(k) : k \in (MaxTens - 1)..MaxTens}

\* the solved puzzles handed to create_puzzle_with_difficulty
DifficultyInputs(g) ==
    IF g \in Shapes THEN SolvedOn(g)
    ELSE {[rc \in ActiveSet(g) |-> "1"]}

DifficultyInit ==
    /\ EqIdle /\ CrIdle /\ GenIdle /\ GrowIdle /\ ObjIdle
    /\ shape \in DifficultyShapes
    /\ input \in DifficultyInputs(shape)
    /\ puzzle = EmptyCells
    /\ solution = EmptyCells
    /\ counted = Nothing

\* create_puzzle_with_difficulty(solved_puzzle, difficulty), up to the loop
\* of the create_puzzle it calls (randomize=True) or to its ValueError
DifficultyCall ==
    /\ cpc = "idle"
    /\ \E dif \in Difficulties :
          /\ difficulty' = Just(dif)
          /\ min_clues' = difficulty_min_clues(total_cells(shape), dif)
    /\ randomize' = TRUE
    /\ IF is_solved(shape, input)
       THEN /\ puzzle' = input
            /\ solution' = input
            /\ todo' \in shuffle(get_active_cells(shape))
            /\ removed_cells' = <<>>
            /\ cpc' = "loop"
       ELSE /\ cpc' = "raised"
            /\ UNCHANGED <<puzzle, solution, todo, removed_cells>>
    /\ UNCHANGED <<shape, input, counted, created, eqVars, genVars, growVars, objVars>>

\* one iteration of the removal loop over the shuffled list
ShuffledRemoval ==
    /\ cpc = "loop"
    /\ todo # <<>>
    /\ ~cannot_remove_more(total_cells(shape), removed_cells, min_clues)
    /\ \E r \in {try_remove(shape, puzzle, removed_cells, Head(todo))} :
          /\ puzzle' = r.cells
          /\ removed_cells' = r.removed_cells
    /\ todo' = Tail(todo)
    /\ UNCHANGED <<shape, input, solution, counted, cpc, min_clues, randomize, difficulty,
                   created, eqVars, genVars, growVars, objVars>>

\* the loop over the shuffled list ends and the result is built
ShuffledReturn ==
    /\ cpc = "loop"
    /\ todo = <<>> \/ cannot_remove_more(total_cells(shape), removed_cells, min_clues)
    /\ created' = Just([puzzle |-> puzzle,
                       solution |-> solution,
                       num_clues |-> total_cells(shape) - Len(removed_cells),
                       total_cells |-> total_cells(shape)])
    /\ cpc' = "done"
    /\ UNCHANGED <<shape, input, puzzle, solution, counted, min_clues, randomize, difficulty,
                   todo, removed_cells, eqVars, genVars, growVars, objVars>>

DifficultyNext == DifficultyCall \/ ShuffledRemoval \/ ShuffledReturn

SpecDifficulty == DifficultyInit /\ [][DifficultyNext]_vars

\* the percentage p the difficulty stands for
PercentOf(dif) ==
    CASE dif = "easy" -> 50
      [] dif = "medium" -> 35
      [] dif = "hard" -> 25

\* C30: create_puzzle_with_difficulty passes to create_puzzle the minimum
\* clue count max(3, floor(p * total)), total the number of active cells and
\* p 50% for easy, 35% for medium and 25% for hard, and the result has at
\* least that many clues whenever total >= 3.
C30_DifficultyThreshold ==
    (/\ difficulty # Nothing
     /\ FromJust(difficulty) \in {"easy", "medium", "hard"}
     /\ cpc \in {"loop", "done"})
        => LET total == total_cells(shape)
               threshold == Max(3, (PercentOf(FromJust(difficulty)) * total) \div 100)
           IN /\ min_clues = threshold
              /\ (cpc = "done" /\ total >= 3) => FromJust(created).num_clues >= threshold


(***************************************************************************)
(* grower.py: the random equations                                         *)
(***************************************************************************)
\* random.randint(lo, hi): the values up to MaxRand, and lo in any case
randint(lo, hi) == lo..Min(hi, Max(lo, MaxRand))

\* _apply_op on the operator characters the grower draws
apply_op(a, op, b) ==
    CASE op = "+" -> Just(a + b)
      [] op = "-" -> Just(a - b)
      [] op \in {"×", "*"} -> Just(a * b)
      [] op \in {"÷", "/"} -> IF b = 0 \/ a % b # 0 THEN Nothing ELSE Just(a \div b)
      [] OTHER -> Nothing

\* the f-string {a}{op}{b}={result}
Fmt2(a, op, b, result) ==
    ToChars(a) \o <<op>> \o ToChars(b) \o <<"=">> \o ToChars(result)

\* the f-string {a}{op1}{b}{op2}{c}={result}
Fmt3(a, op1, b, op2, c, result) ==
    ToChars(a) \o <<op1>> \o ToChars(b) \o <<op2>> \o ToChars(c) \o <<"=">>
        \o ToChars(result)

\* the strings a op b = result with a, b drawn from as, bs, op from ops and
\* the result within rlo..rhi
TwoOperand(as, ops, bs, rlo, rhi) ==
    {Fmt2(t[1], t[2], t[3], FromJust(apply_op(t[1], t[2], t[3]))) :
        t \in {u \in as \X ops \X bs :
                  LET result == apply_op(u[1], u[2], u[3])
                  IN /\ result # Nothing
                     /\ rlo <= FromJust(result) /\ FromJust(result) <= rhi}}

\* the strings a op1 b op2 c = result, evaluated left to right, with the
\* result within rlo..rhi
ThreeOperand(as, ops1, bs, ops2, cs, rlo, rhi) ==
    {Fmt3(t[1], t[2], t[3], t[4], t[5],
          FromJust(apply_op(FromJust(apply_op(t[1], t[2], t[3])), t[4], t[5]))) :
        t \in {u \in as \X ops1 \X bs \X ops2 \X cs :
                  LET temp == apply_op(u[1], u[2], u[3])
                  IN /\ temp # Nothing
                     /\ LET result == apply_op(FromJust(temp), u[4], u[5])
                        IN /\ result # Nothing
                           /\ rlo <= FromJust(result) /\ FromJust(result) <= rhi}}

AllOps == {"+", "-", "×", "÷"}

\* the branch length == 5 of _generate_random_equation
structure_5 == TwoOperand(randint(1, 9), AllOps, randint(2, 9), 0, 9)

try_structure_7_v1 == TwoOperand(randint(10, 99), AllOps, randint(2, 9), 10, 99)

try_structure_7_v2 == TwoOperand(randint(2, 9), AllOps, randint(10, 99), 10, 99)

try_structure_7_v3 ==
    ThreeOperand(randint(1, 9), {"+", "-", "×"}, randint(2, 9), {"+", "-"},
                 randint(2, 9), 0, 9)

try_9_ab_op_cd_efg ==
    TwoOperand(randint(10, 99), {"+", "-", "×"}, randint(10, 99), 100, 999)

try_9_abc_op_d_efgh == TwoOperand(randint(100, 999), {"×"}, randint(2, 9), 1000, 9999)

try_9_a_op_b_op_c_de ==
    ThreeOperand(randint(2, 9), {"+", "-", "×"}, randint(2, 9), {"+", "-", "×"},
                 randint(2, 9), 10, 99)

try_structure_9 == try_9_abc_op_d_efgh \cup try_9_ab_op_cd_efg \cup try_9_a_op_b_op_c_de

RECURSIVE Pow10(_)
Pow10(n) == IF n = 0 THEN 1 ELSE 10 * Pow10(n - 1)

try_generic_structure(length) ==
    LET total_digits == length - 2 IN
    IF total_digits < 3 THEN {}
    ELSE UNION {
           LET r_len == total_digits - ab[1] - ab[2]
               a_min == IF ab[1] > 1 THEN Pow10(ab[1] - 1) ELSE 1
               b_min == IF ab[2] > 1 THEN Pow10(ab[2] - 1) ELSE 2
               r_min == IF r_len > 1 THEN Pow10(r_len - 1) ELSE 0
           IN {eq \in TwoOperand(randint(a_min, Pow10(ab[1]) - 1), {"+", "-", "×"},
                                 randint(b_min, Pow10(ab[2]) - 1),
                                 r_min, Pow10(r_len) - 1) :
                  Len(eq) = length} :
           ab \in {x \in (1..(total_digits - 2)) \X (1..(total_digits - 2)) :
                      x[1] + x[2] < total_digits}}

\* the character lists _generate_random_equation(length) can return (it
\* can return None as well)
generate_random_equation(length) ==
    IF length < 5 THEN {}
    ELSE IF length = 5 THEN {eq \in structure_5 : Len(eq) = length}
    ELSE IF length = 7
    THEN {eq \in try_structure_7_v1 \cup try_structure_7_v2 \cup try_structure_7_v3 :
             Len(eq) = length}
    ELSE IF length = 9 THEN {eq \in try_structure_9 : Len(eq) = length}
    ELSE try_generic_structure(length)

\* the lengths grow_puzzle is asked for: single values and (min, max) ranges
SingleLengths == {4, 5, 6, 7}

LengthRanges == {<<5, 9>>, <<10, 12>>}

\* the list lengths of grow_puzzle
lengths_of_range(min_len, max_len) ==
    SelectSeq(<<5, 7, 9>>, LAMBDA l : min_len <= l /\ l <= max_len)

AskedLengths ==
    SingleLengths
      \cup UNION {{lengths_of_range(t[1], t[2])[i] :
                     i \in 1..Len(lengths_of_range(t[1], t[2]))} : t \in LengthRanges}

\* for each length, the character lists generate_interesting_equation can
\* return (it can return None as well)
interesting_equations ==
    [length \in AskedLengths |->
        {eq \in generate_random_equation(length) : is_interesting_equation(eq)}]

generate_interesting_equation(length) ==
    {Nothing} \cup {Just(eq) : eq \in interesting_equations[length]}

(***************************************************************************)
(* grower.py (SpecGrow): GrowingPuzzle, find_crossing_equation and         *)
(* grow_puzzle, one step per placed equation.                              *)
(***************************************************************************)
\* GrowingPuzzle.get_cell
gp_get_cell(gcells, row, col) ==
    IF <<row, col>> \in DOMAIN gcells THEN gcells[<<row, col>>] ELSE None

MinOf(S) == CHOOSE x \in S : \A y \in S : x <= y

MaxOf(S) == CHOOSE x \in S : \A y \in S : x >= y

\* GrowingPuzzle.get_bounds: <<min_row, min_col, max_row, max_col>>
get_bounds(gcells) ==
    IF DOMAIN gcells = {} THEN <<0, 0, 0, 0>>
    ELSE LET rows == {rc[1] : rc \in DOMAIN gcells}
             cols == {rc[2] : rc \in DOMAIN gcells}
         IN <<MinOf(rows), MinOf(cols), MaxOf(rows), MaxOf(cols)>>

\* a dict with every key (r, c) moved to (r - min_row, c - min_col)
Shifted(dict, min_row, min_col) ==
    [rc \in {<<k[1] - min_row, k[2] - min_col>> : k \in DOMAIN dict} |->
        dict[<<rc[1] + min_row, rc[2] + min_col>>]]

\* GrowingPuzzle.normalize
normalize(gp) ==
    IF DOMAIN gp.cells = {} THEN gp
    ELSE LET min_row == get_bounds(gp.cells)[1]
             min_col == get_bounds(gp.cells)[2]
         IN [cells |-> Shifted(gp.cells, min_row, min_col),
             equations |->
                 [i \in 1..Len(gp.equations) |->
                     [direction |-> gp.equations[i].direction,
                      positions |->
                          [j \in 1..Len(gp.equations[i].positions) |->
                              <<gp.equations[i].positions[j][1] - min_row,
                                gp.equations[i].positions[j][2] - min_col>>]]],
             cell_directions |-> Shifted(gp.cell_directions, min_row, min_col)]

\* the positions of an equation of the given length that has its character
\* number cross_position (0-based) on the crossing cell
positions_of(cross_row, cross_col, direction, length, cross_position) ==
    [i \in 1..length |->
        IF direction = "vertical"
        THEN <<cross_row - cross_position + (i - 1), cross_col>>
        ELSE <<cross_row, cross_col - cross_position + (i - 1)>>]

\* a variant of find_crossing_equation that matches the crossing cell only
\* and skips the comparison with the other existing cells
\* (a seeded fault, for sensitivity analysis)
find_crossing_equation_crossing_only(gcells, cross_row, cross_col, direction, length, cross_position) ==
    LET existing_char == gp_get_cell(gcells, cross_row, cross_col)
        start_r == cross_row - cross_position
        end_r == start_r + length - 1
        start_c == cross_col - cross_position
        end_c == start_c + length - 1
        before_cell == IF direction = "vertical"
                       THEN gp_get_cell(gcells, start_r - 1, cross_col)
                       ELSE gp_get_cell(gcells, cross_row, start_c - 1)
        after_cell == IF direction = "vertical"
                      THEN gp_get_cell(gcells, end_r + 1, cross_col)
                      ELSE gp_get_cell(gcells, cross_row, end_c + 1)
    IN IF existing_char = None THEN {Nothing}
       ELSE IF before_cell # None \/ after_cell # None THEN {Nothing}
       ELSE {Nothing}
              \cup {r \in generate_interesting_equation(length) :
                      /\ r # Nothing
                      /\ FromJust(r)[cross_position + 1] = existing_char}

\* what find_crossing_equation can return: Nothing (None), or Just(eq)
find_crossing_equation(gcells, cross_row, cross_col, direction, length, cross_position) ==
    LET existing_char == gp_get_cell(gcells, cross_row, cross_col)
        start_r == cross_row - cross_position
        end_r == start_r + length - 1
        start_c == cross_col - cross_position
        end_c == start_c + length - 1
        before_cell == IF direction = "vertical"
                       THEN gp_get_cell(gcells, start_r - 1, cross_col)
                       ELSE gp_get_cell(gcells, cross_row, start_c - 1)
        after_cell == IF direction = "vertical"
                      THEN gp_get_cell(gcells, end_r + 1, cross_col)
                      ELSE gp_get_cell(gcells, cross_row, end_c + 1)
        at == positions_of(cross_row, cross_col, direction, length, cross_position)
    IN IF existing_char = None THEN {Nothing}
       ELSE IF before_cell # None \/ after_cell # None THEN {Nothing}
       ELSE {Nothing}
              \cup {r \in generate_interesting_equation(length) :
                      /\ r # Nothing
                      /\ FromJust(r)[cross_position + 1] = existing_char
                      /\ \A i \in 1..Len(FromJust(r)) :
                            LET existing == gp_get_cell(gcells, at[i][1], at[i][2])
                            IN ~(existing # None /\ existing # FromJust(r)[i])}

\* the three fields after eq is written to the cells at and appended
place_equation(gp, direction, at, eq) ==
    LET new == {at[i] : i \in 1..Len(at)}
    IN [cells |->
            [rc \in DOMAIN gp.cells \cup new |->
                IF rc \in new THEN eq[CHOOSE i \in 1..Len(at) : at[i] = rc]
                ELSE gp.cells[rc]],
        equations |-> Append(gp.equations, [direction |-> direction, positions |-> at]),
        cell_directions |->
            [rc \in DOMAIN gp.cell_directions \cup new |->
                (IF rc \in DOMAIN gp.cell_directions THEN gp.cell_directions[rc] ELSE {})
                    \cup (IF rc \in new THEN {direction} ELSE {})]]

\* the direction of equation number eq_num
direction_of(n) == IF n % 2 = 1 THEN "vertical" ELSE "horizontal"

opposite_of(direction) == IF direction = "vertical" THEN "horizontal" ELSE "vertical"

\* a variant of digit_cells that also takes cells already on a line of the
\* new direction (a seeded fault, for sensitivity analysis)
digit_cells_either_direction(gp, direction) ==
    {rc \in DOMAIN gp.cells :
        /\ gp.cells[rc] \in DIGIT_CHARS
        /\ opposite_of(direction) \in gp.cell_directions[rc]}

\* the list digit_cells (as a set, it is shuffled before use)
digit_cells(gp, direction) ==
    {rc \in DOMAIN gp.cells :
        /\ gp.cells[rc] \in DIGIT_CHARS
        /\ opposite_of(direction) \in gp.cell_directions[rc]
        /\ direction \notin gp.cell_directions[rc]}

\* grown_puzzle_to_shape_and_solution: the grid of the Shape and the cells
\* of the solved Puzzle
grown_puzzle_to_shape_and_solution(gp) ==
    LET q == normalize(gp)
        max_row == get_bounds(q.cells)[3]
        max_col == get_bounds(q.cells)[4]
    IN [grid |-> [row \in 1..(max_row + 1) |->
                     [col \in 1..(max_col + 1) |->
                         gp_get_cell(q.cells, row - 1, col - 1) # None]],
        cells |-> q.cells]

\* the GrowingPuzzle of the current attempt
Growing == [cells |-> grow_cells, equations |-> equations,
            cell_directions |-> cell_directions]

\* the model follows growths whose cells span at most MaxHeight rows and
\* MaxWidth columns
FitsWindow(occupied) ==
    LET rows == {rc[1] : rc \in occupied}
        cols == {rc[2] : rc \in occupied}
    IN /\ MaxOf(rows) - MinOf(rows) < MaxHeight
       /\ MaxOf(cols) - MinOf(cols) < MaxWidth

\* the list lengths grow_puzzle derives from equation_length
lengths_of(arg) ==
    IF Len(arg) = 2 THEN lengths_of_range(arg[1], arg[2]) ELSE <<arg[1]>>

\* a variant of the return test that looks at success only
\* (a seeded fault, for sensitivity analysis)
reached_num_equations_any(eqs, n) == TRUE

\* the test len(puzzle.equations) == num_equations
reached_num_equations(eqs, n) == Len(eqs) = n

GrowInit == EqIdle /\ PuzIdle /\ CrIdle /\ GenIdle /\ GrowIdle /\ ObjIdle

\* grow_puzzle(num_equations, equation_length, max_attempts) up to the
\* attempt loop
GrowCall ==
    /\ grow_pc = "idle"
    /\ num_equations' \in 0..MaxEquations
    /\ equation_length' \in {<<l>> : l \in SingleLengths} \cup LengthRanges
    /\ lengths' = lengths_of(equation_length')
    /\ attempts_left' \in 0..MaxGrowAttempts
    /\ grow_pc' = "attempt"
    /\ UNCHANGED <<grow_cells, equations, cell_directions, eq_num, grown,
                   eqVars, puzVars, crVars, genVars, objVars>>

\* an attempt starts with a list lengths that is empty: random.choice
\* raises IndexError
AttemptRaises ==
    /\ grow_pc = "attempt"
    /\ attempts_left > 0
    /\ lengths = <<>>
    /\ grow_pc' = "raised"
    /\ UNCHANGED <<num_equations, equation_length, lengths, attempts_left, grow_cells, equations,
                   cell_directions, eq_num, grown, eqVars, puzVars, crVars, genVars, objVars>>

\* an attempt whose first equation could not be generated: continue
AttemptSkipped ==
    /\ grow_pc = "attempt"
    /\ attempts_left > 0
    /\ lengths # <<>>
    /\ attempts_left' = attempts_left - 1
    /\ \E i \in 1..Len(lengths) : Nothing \in generate_interesting_equation(lengths[i])
    /\ grow_cells' = EmptyCells
    /\ equations' = <<>>
    /\ cell_directions' = EmptyCells
    /\ UNCHANGED <<grow_pc, num_equations, equation_length, lengths, eq_num, grown,
                   eqVars, puzVars, crVars, genVars, objVars>>

\* an attempt starts: the first equation is placed on row 0
AttemptStarts ==
    /\ grow_pc = "attempt"
    /\ attempts_left > 0
    /\ lengths # <<>>
    /\ attempts_left' = attempts_left - 1
    /\ \E i \in 1..Len(lengths) :
          \E first_eq \in generate_interesting_equation(lengths[i]) \ {Nothing} :
             \E gp \in {place_equation([cells |-> EmptyCells, equations |-> <<>>,
                                        cell_directions |-> EmptyCells],
                                       "horizontal",
                                       positions_of(0, 0, "horizontal",
                                                    Len(FromJust(first_eq)), 0),
                                       FromJust(first_eq))} :
                /\ FitsWindow(DOMAIN gp.cells)
                /\ grow_cells' = gp.cells
                /\ equations' = gp.equations
                /\ cell_directions' = gp.cell_directions
    /\ eq_num' = 1
    /\ grow_pc' = "grow"
    /\ UNCHANGED <<num_equations, equation_length, lengths, grown, eqVars, puzVars, crVars, genVars, objVars>>

\* one pass of the loop over eq_num that places a crossing equation
PlaceCrossing ==
    /\ grow_pc = "grow"
    /\ eq_num < num_equations
    /\ \E i \in 1..Len(lengths) :
          \E rc \in digit_cells(Growing, direction_of(eq_num)) :
             \E cross_pos \in 0..(lengths[i] - 1) :
                \E placed_at \in {positions_of(rc[1], rc[2], direction_of(eq_num),
                                        lengths[i], cross_pos)} :
                   /\ FitsWindow(DOMAIN grow_cells \cup {placed_at[j] : j \in 1..Len(placed_at)})
                   /\ \E crossing_eq \in find_crossing_equation(grow_cells, rc[1], rc[2],
                                             direction_of(eq_num), lengths[i], cross_pos)
                                           \ {Nothing} :
                         \E gp \in {place_equation(Growing, direction_of(eq_num), placed_at,
                                                   FromJust(crossing_eq))} :
                            /\ grow_cells' = gp.cells
                            /\ equations' = gp.equations
                            /\ cell_directions' = gp.cell_directions
    /\ eq_num' = eq_num + 1
    /\ UNCHANGED <<grow_pc, num_equations, equation_length, lengths, attempts_left, grown,
                   eqVars, puzVars, crVars, genVars, objVars>>

\* one pass of the loop over eq_num that places nothing (no digit cell to
\* cross, or every find_crossing_equation returned None): the attempt
\* fails, and its puzzle is dropped (the loop top binds a new one)
PlaceFails ==
    /\ grow_pc = "grow"
    /\ eq_num < num_equations
    /\ grow_pc' = "attempt"
    /\ grow_cells' = EmptyCells
    /\ equations' = <<>>
    /\ cell_directions' = EmptyCells
    /\ UNCHANGED <<num_equations, equation_length, lengths, attempts_left, eq_num, grown,
                   eqVars, puzVars, crVars, genVars, objVars>>

\* the loop over eq_num is over but the number of equations is not
\* num_equations: the puzzle is dropped, next attempt
AttemptDiscarded ==
    /\ grow_pc = "grow"
    /\ eq_num >= num_equations
    /\ ~reached_num_equations(equations, num_equations)
    /\ grow_pc' = "attempt"
    /\ grow_cells' = EmptyCells
    /\ equations' = <<>>
    /\ cell_directions' = EmptyCells
    /\ UNCHANGED <<num_equations, equation_length, lengths, attempts_left, eq_num, grown,
                   eqVars, puzVars, crVars, genVars, objVars>>

\* the attempt succeeded: return puzzle.normalize()
GrowReturn ==
    /\ grow_pc = "grow"
    /\ eq_num >= num_equations
    /\ reached_num_equations(equations, num_equations)
    /\ grown' = Just(Just(normalize(Growing)))
    /\ grow_pc' = "done"
    /\ UNCHANGED <<num_equations, equation_length, lengths, attempts_left, grow_cells, equations,
                   cell_directions, eq_num, eqVars, puzVars, crVars, genVars, objVars>>

\* the attempt loop is over: return None
GrowGiveUp ==
    /\ grow_pc = "attempt"
    /\ attempts_left = 0
    /\ grown' = Just(Nothing)
    /\ grow_pc' = "done"
    /\ UNCHANGED <<num_equations, equation_length, lengths, attempts_left, grow_cells, equations,
                   cell_directions, eq_num, eqVars, puzVars, crVars, genVars, objVars>>

GrowNext ==
    \/ GrowCall \/ AttemptRaises \/ AttemptSkipped \/ AttemptStarts
    \/ PlaceCrossing \/ PlaceFails \/ AttemptDiscarded \/ GrowReturn \/ GrowGiveUp

SpecGrow == GrowInit /\ [][GrowNext]_vars

\* grow_puzzle(num_equations, (5, 9), 1) with more equations than SpecGrow
\* follows
GrowCallMixed ==
    /\ grow_pc = "idle"
    /\ num_equations' \in {MaxEquations + 2, MaxEquations + 3}
    /\ equation_length' = <<5, 9>>
    /\ lengths' = lengths_of(equation_length')
    /\ attempts_left' = 1
    /\ grow_pc' = "attempt"
    /\ UNCHANGED <<grow_cells, equations, cell_directions, eq_num, grown,
                   eqVars, puzVars, crVars, genVars, objVars>>

GrowMixedNext ==
    \/ GrowCallMixed \/ AttemptSkipped \/ AttemptStarts
    \/ PlaceCrossing \/ PlaceFails \/ GrowReturn \/ GrowGiveUp

SpecGrowMixed == GrowInit /\ [][GrowMixedNext]_vars

\* the defaults of grow_puzzle's num_equations and equation_length
DefaultNumEquations == 4

DefaultEquationLength == 5

\* grow_puzzle(max_attempts=1): num_equations and equation_length take
\* their defaults
GrowCallDefault ==
    /\ grow_pc = "idle"
    /\ num_equations' = DefaultNumEquations
    /\ equation_length' = <<DefaultEquationLength>>
    /\ lengths' = lengths_of(equation_length')
    /\ attempts_left' = 1
    /\ grow_pc' = "attempt"
    /\ UNCHANGED <<grow_cells, equations, cell_directions, eq_num, grown,
                   eqVars, puzVars, crVars, genVars, objVars>>

GrowDefaultNext ==
    \/ GrowCallDefault \/ AttemptSkipped \/ AttemptStarts
    \/ PlaceCrossing \/ PlaceFails \/ GrowReturn \/ GrowGiveUp

SpecGrowDefault == GrowInit /\ [][GrowDefaultNext]_vars


(***************************************************************************)
(* Shape objects (SpecShape): a Shape is constructed from a grid, ragged   *)
(* and all-inactive grids included, and asked for its runs.                *)
(***************************************************************************)
\* the number of cells of a grid
RECURSIVE CellCount(_)
CellCount(g) == IF g = <<>> THEN 0 ELSE Len(g[1]) + CellCount(Tail(g))

\* the grid list is empty; the caller builds it row by row
ShapeInit ==
    /\ EqIdle /\ PuzIdle /\ CrIdle /\ GenIdle /\ GrowIdle
    /\ shape_heap = << <<>> >>
    /\ dict_heap = <<>>
    /\ orig = Nothing
    /\ copied = Nothing
    /\ last_call = Nothing

\* the caller appends a row of booleans to the grid
AddRow ==
    /\ last_call = Nothing
    /\ Len(shape_heap[1]) < MaxShapeRows
    /\ \E l \in 0..MaxShapeCols : \E row \in [1..l -> BOOLEAN] :
          /\ CellCount(shape_heap[1]) + l <= MaxShapeCells
          /\ shape_heap' = <<Append(shape_heap[1], row)>>
    /\ UNCHANGED <<dict_heap, orig, copied, last_call,
                   eqVars, puzVars, crVars, genVars, growVars>>

\* Shape(grid).get_all_runs()
GetAllRuns ==
    /\ last_call = Nothing
    /\ last_call' = Just([op |-> "get_all_runs", on |-> 1,
                          value |-> get_all_runs(shape_heap[1])])
    /\ UNCHANGED <<shape_heap, dict_heap, orig, copied,
                   eqVars, puzVars, crVars, genVars, growVars>>

ShapeNext == AddRow \/ GetAllRuns

SpecShape == ShapeInit /\ [][ShapeNext]_vars

(***************************************************************************)
(* Puzzle objects (SpecPuzzle): a Puzzle p on a Shape, q = p.copy(),       *)
(* set_cell on either with any coordinates, and is_solved.                 *)
(***************************************************************************)
\* one row of three cells and a second row holding one inactive cell
Row3Pad == << <<TRUE, TRUE, TRUE>>, <<FALSE>> >>

ObjGrids == {Row3Pad}

\* a coordinate that is no active cell of Row3Pad: its inactive cell
StrayCoords == {<<1, 0>>}

\* the coordinates set_cell is called with
SetCoords(g) == ActiveSet(g) \cup StrayCoords

\* the values set_cell is called with
CellValues == {"1", "=", None}

PuzzleNames == {"p"} \cup (IF copied = Nothing THEN {} ELSE {"q"})

PuzzleNamed(x) == IF x = "p" THEN FromJust(orig) ELSE FromJust(copied)

\* the grid and the cell mapping a Puzzle refers to
GridOf(pz) == shape_heap[pz.shape]

CellsOf(pz) == dict_heap[pz.cells]

\* p = Puzzle(shape) on a fresh Shape
PuzzleInit ==
    /\ EqIdle /\ PuzIdle /\ CrIdle /\ GenIdle /\ GrowIdle
    /\ shape_heap \in {<<g>> : g \in ObjGrids}
    /\ dict_heap = <<EmptyCells>>
    /\ orig = Just([shape |-> 1, cells |-> 1])
    /\ copied = Nothing
    /\ last_call = Nothing

\* x.set_cell(row, col, value)
SetCellOn(x) ==
    /\ x \in PuzzleNames
    /\ \E rc \in SetCoords(GridOf(PuzzleNamed(x))) : \E v \in CellValues :
          dict_heap' = [dict_heap EXCEPT ![PuzzleNamed(x).cells] =
                           set_cell(@, rc[1], rc[2], v)]
    /\ last_call' = Nothing
    /\ UNCHANGED <<shape_heap, orig, copied, eqVars, puzVars, crVars, genVars, growVars>>

SetCell == \E x \in {"p", "q"} : SetCellOn(x)

\* q = p.copy()
Copy ==
    /\ copied = Nothing
    /\ \E r \in {copy(dict_heap, FromJust(orig))} :
          /\ dict_heap' = r.heap
          /\ copied' = Just(r.puzzle)
    /\ last_call' = Nothing
    /\ UNCHANGED <<shape_heap, orig, eqVars, puzVars, crVars, genVars, growVars>>

\* x.is_solved()
IsSolved ==
    /\ \E x \in PuzzleNames :
          last_call' = Just([op |-> "is_solved", on |-> x,
                             value |-> is_solved(GridOf(PuzzleNamed(x)),
                                                 CellsOf(PuzzleNamed(x)))])
    /\ UNCHANGED <<shape_heap, dict_heap, orig, copied,
                   eqVars, puzVars, crVars, genVars, growVars>>

\* the puzzle p after a search that left cells in its dict
Searched(cells) == [dict_heap EXCEPT ![FromJust(orig).cells] = cells]

\* count_solutions(p, max_count), called before p is copied
CountSolutions ==
    /\ copied = Nothing
    /\ \E k \in 1..MaxCap :
          \E run \in {count_solutions_run(GridOf(FromJust(orig)), CellsOf(FromJust(orig)), k)} :
             /\ last_call' = Just([op |-> "count_solutions", on |-> k,
                                   value |-> run.solutions])
             /\ dict_heap' = Searched(run.cells)
    /\ UNCHANGED <<shape_heap, orig, copied, eqVars, puzVars, crVars, genVars, growVars>>

\* has_unique_solution(p), called before p is copied
HasUniqueSolution ==
    /\ copied = Nothing
    /\ \E run \in {has_unique_solution_run(GridOf(FromJust(orig)), CellsOf(FromJust(orig)))} :
          /\ last_call' = Just([op |-> "has_unique_solution", on |-> 2,
                                value |-> run.unique])
          /\ dict_heap' = Searched(run.cells)
    /\ UNCHANGED <<shape_heap, orig, copied, eqVars, puzVars, crVars, genVars, growVars>>

\* find_all_solutions(p, max_solutions), called before p is copied
FindAllSolutions ==
    /\ copied = Nothing
    /\ \E k \in 1..MaxCap :
          \E run \in {find_all_solutions_run(GridOf(FromJust(orig)),
                                              CellsOf(FromJust(orig)), k)} :
             /\ last_call' = Just([op |-> "find_all_solutions", on |-> k,
                                   value |-> run.found])
             /\ dict_heap' = Searched(run.cells)
    /\ UNCHANGED <<shape_heap, orig, copied, eqVars, puzVars, crVars, genVars, growVars>>

PuzzleNext ==
    SetCell \/ Copy \/ IsSolved \/ CountSolutions \/ HasUniqueSolution \/ FindAllSolutions

SpecPuzzle == PuzzleInit /\ [][PuzzleNext]_vars

(***************************************************************************)
(* Properties of the equation engine (checked under SpecEq).               *)
(***************************************************************************)
Checked == epc = "checked"

\* the reference fold ((v0 op1 v1) op2 v2)... over the first k operators of a
\* side: Nothing when a step fails
RefStep(a, o, b) ==
    CASE o = "ADD" -> Just(a + b)
      [] o = "SUB" -> Just(a - b)
      [] o = "MUL" -> Just(a * b)
      [] o = "DIV" -> LET m == IF a < 0 THEN -a ELSE a
                      IN IF b # 0 /\ (\E q \in -m..m : q * b = a)
                         THEN Just(CHOOSE q \in -m..m : q * b = a)
                         ELSE Nothing

RECURSIVE RefFold(_, _)
RefFold(side, k) ==
    IF k = 0 THEN Just(side.nums[1])
    ELSE LET acc == RefFold(side, k - 1)
         IN IF acc = Nothing THEN Nothing
            ELSE RefStep(FromJust(acc), side.ops[k], side.nums[k + 1])

RefValue(side) == RefFold(side, Len(side.ops))

RefValid(eq) ==
    /\ RefValue(eq.left) # Nothing
    /\ RefValue(eq.right) # Nothing
    /\ FromJust(RefValue(eq.left)) = FromJust(RefValue(eq.right))

\* C8: evaluation is strictly left to right with no precedence: for every
\* well-formed character list (formatted from numbers and operators, one
\* equals sign, no leading zeros) is_valid_equation returns true iff both
\* left-to-right folds succeed and are equal; 2+3×4=20 is valid and
\* 2+3×4=14 is not.
C8_LeftToRight ==
    Checked =>
        /\ src # Nothing => verdict = Just(RefValid(FromJust(src)))
        /\ chars = <<"2", "+", "3", "×", "4", "=", "2", "0">> => verdict = Just(TRUE)
        /\ chars = <<"2", "+", "3", "×", "4", "=", "1", "4">> => verdict = Just(FALSE)

\* a checked two-operator equation on which precedence would give another
\* value: 1+1×2=4
C8_Witness ==
    /\ Checked
    /\ src # Nothing
    /\ chars = <<"1", "+", "1", "×", "2", "=", "4">>
    /\ verdict = Just(TRUE)

LegalChars == {"0", "1", "2", "3", "4", "5", "6", "7", "8", "9",
               "+", "-", "×", "*", "÷", "/", "="}

OperatorSpellings == {"+", "-", "×", "*", "÷", "/"}

EqualsPositions(cs) == {i \in 1..Len(cs) : cs[i] = "="}

\* a side cs[lo..hi] is not of the form number (operator number)*: it is
\* empty, starts or ends with an operator, or has two operators in a row
BadSide(cs, lo, hi) ==
    \/ lo > hi
    \/ cs[lo] \in OperatorSpellings
    \/ cs[hi] \in OperatorSpellings
    \/ \E i \in lo..(hi - 1) : cs[i] \in OperatorSpellings /\ cs[i + 1] \in OperatorSpellings

Malformed(cs) ==
    \/ \E i \in 1..Len(cs) : cs[i] \notin LegalChars
    \/ Cardinality(EqualsPositions(cs)) # 1
    \/ \E e \in EqualsPositions(cs) : BadSide(cs, 1, e - 1) \/ BadSide(cs, e + 1, Len(cs))

\* C9: is_valid_equation returns false (and returns) on every character
\* list with a character outside the alphabet, with no or several equals
\* signs, with an empty side, or with a side that is not number (operator
\* number)*; the empty list included.
C9_MalformedInvalid ==
    Checked =>
        /\ verdict \in {Just(TRUE), Just(FALSE)}
        /\ Malformed(chars) => verdict = Just(FALSE)

\* a checked list with two equals signs and an empty right side: 1=1=
C9_Witness ==
    /\ Checked
    /\ chars = <<"1", "=", "1", "=">>
    /\ Malformed(chars)
    /\ verdict = Just(FALSE)

\* some maximal digit run of cs is longer than one digit and starts with 0
HasZeroLedRun(cs) ==
    \E i \in 1..(Len(cs) - 1) :
        /\ cs[i] = "0"
        /\ cs[i + 1] \in DIGIT_CHARS
        /\ (i = 1 \/ cs[i - 1] \notin DIGIT_CHARS)

\* C10: is_valid_equation returns false whenever some maximal digit run is
\* longer than one digit and starts with 0 (08=8), whatever the arithmetic,
\* while the single digit 0 is accepted (0=0 is valid).
C10_LeadingZero ==
    Checked =>
        /\ HasZeroLedRun(chars) => verdict = Just(FALSE)
        /\ chars = <<"0", "=", "0">> => verdict = Just(TRUE)

\* the checked example 08=8, whose arithmetic would hold
C10_Witness ==
    /\ Checked
    /\ chars = <<"0", "8", "=", "8">>
    /\ HasZeroLedRun(chars)
    /\ verdict = Just(FALSE)

\* some division step of the left-to-right fold of side fails: the steps
\* before it succeed with value a and the step divides a by 0 or by a number
\* that does not divide a exactly
FailingDivision(side) ==
    \E k \in 1..Len(side.ops) :
        /\ side.ops[k] = "DIV"
        /\ RefFold(side, k - 1) # Nothing
        /\ LET a == FromJust(RefFold(side, k - 1))
               b == side.nums[k + 1]
               m == IF a < 0 THEN -a ELSE a
           IN b = 0 \/ (\A q \in -m..m : q * b # a)

\* C11: a division step succeeds only when the divisor is not 0 and divides
\* exactly; an equation with a failing division step on either side is
\* invalid whatever follows that step (7÷2=3 and 8÷0=0 are invalid, 8÷2=4
\* is valid).
C11_DivisionExact ==
    Checked =>
        /\ (src # Nothing /\ (FailingDivision(FromJust(src).left)
                               \/ FailingDivision(FromJust(src).right)))
               => verdict = Just(FALSE)
        /\ chars = <<"7", "÷", "2", "=", "3">> => verdict = Just(FALSE)
        /\ chars = <<"8", "÷", "0", "=", "0">> => verdict = Just(FALSE)
        /\ chars = <<"8", "÷", "2", "=", "4">> => verdict = Just(TRUE)

\* the checked equation 1÷2×2=0, whose first step is an inexact division
\* followed by a further step
C11_Witness ==
    /\ Checked
    /\ src # Nothing
    /\ chars = <<"1", "÷", "2", "×", "2", "=", "0">>
    /\ FailingDivision(FromJust(src).left)
    /\ verdict = Just(FALSE)

Rated == epc = "rated"

\* the operands of eq that immediately follow an operator of opset
OperandsAfter(eq, opset) ==
    {eq.left.nums[k + 1] : k \in {j \in 1..Len(eq.left.ops) : eq.left.ops[j] \in opset}}
        \cup {eq.right.nums[k + 1] :
                 k \in {j \in 1..Len(eq.right.ops) : eq.right.ops[j] \in opset}}

\* the conditions of an interesting equation on its numbers and operators
RefInteresting(eq) ==
    /\ RefValid(eq)
    /\ Len(eq.left.ops) + Len(eq.right.ops) >= 1
    /\ 1 \notin OperandsAfter(eq, {"MUL", "DIV"})
    /\ 0 \notin OperandsAfter(eq, {"ADD", "SUB"})
    /\ 0 \notin OperandsAfter(eq, {"MUL"})
    /\ ~(RefValue(eq.left) = Just(0) /\ Len(eq.left.ops) + Len(eq.right.ops) = 1)

\* the number that starts at position i of cs is the single digit dg
SingleDigitAt(cs, i, dg) ==
    /\ i <= Len(cs)
    /\ cs[i] = dg
    /\ (i = Len(cs) \/ cs[i + 1] \notin DIGIT_CHARS)

OperatorPositions(cs) == {i \in 1..Len(cs) : cs[i] \in OperatorSpellings}

\* the same conditions on a raw character list (a valid list has no
\* leading zeros, so an operand equal to 0 or 1 is a single digit)
CharInteresting(cs) ==
    /\ is_valid_equation(cs)
    /\ OperatorPositions(cs) # {}
    /\ \A i \in OperatorPositions(cs) :
          /\ cs[i] \in {"×", "*", "÷", "/"} => ~SingleDigitAt(cs, i + 1, "1")
          /\ cs[i] \in {"+", "-"} => ~SingleDigitAt(cs, i + 1, "0")
          /\ cs[i] \in {"×", "*"} => ~SingleDigitAt(cs, i + 1, "0")
    /\ ~(/\ evaluate_side(FromJust(parse_equation(cs)).left_tokens) = Just(0)
          /\ Cardinality(OperatorPositions(cs)) = 1)

\* C12: is_interesting_equation(chars) is true iff chars is a valid equation
\* with at least one operator, no operand 1 right after a multiplication or
\* division, no operand 0 right after an addition, subtraction or
\* multiplication, and not (left side equal to 0 with exactly one operator
\* in the whole equation).
C12_InterestingIff ==
    Rated =>
        /\ verdict = Just(CharInteresting(chars))
        /\ src # Nothing => verdict = Just(RefInteresting(FromJust(src)))

\* the rated equation 2-2=0: valid, one operator, left side 0
C12_Witness ==
    /\ Rated
    /\ src # Nothing
    /\ chars = <<"2", "-", "2", "=", "0">>
    /\ is_valid_equation(chars)
    /\ verdict = Just(FALSE)

\* a rated equation that is interesting: 2+2÷2=2
C12_WitnessInteresting ==
    /\ Rated
    /\ chars = <<"2", "+", "2", "÷", "2", "=", "2">>
    /\ verdict = Just(TRUE)

(***************************************************************************)
(* Properties of the solver (checked under SpecSolve).                     *)
(***************************************************************************)
BlankSet(g, cs) == ActiveSet(g) \ DOMAIN cs

\* the total assignments of the blank cells of cs, drawn from the alphabet,
\* under which the puzzle is solved
SolvingAssignments(g, cs) ==
    {f \in [BlankSet(g, cs) -> Alphabet] : is_solved(g, Joined(cs, f))}

\* C1: for every puzzle with at least one empty active cell and every cap
\* k >= 1, count_solutions(puzzle, k) = min(k, T), T being the number of
\* total assignments of the empty cells from the alphabet {0-9, +, -, ×, ÷, =}
\* under which the puzzle is solved.
C1_CountIsMinCapT ==
    (counted # Nothing /\ BlankSet(shape, puzzle) # {}) =>
        FromJust(counted).solutions =
            Min(FromJust(counted).max_count,
                Cardinality(SolvingAssignments(shape, puzzle)))

\* C3: has_unique_solution is monotonic under clue addition: when a blanked
\* puzzle has a unique solution, revealing the solution's value in any blank
\* cell leaves it with a unique solution.
C3_RevealKeepsUnique ==
    [][(Reveal /\ has_unique_solution(shape, puzzle))
          => has_unique_solution(shape, puzzle')]_vars

\* C23: could_be_valid_equation returns False on a partially filled run
\* only if no assignment of alphabet characters to its blanks is a valid
\* equation: on every run of a puzzle whose blanks the solution completes
\* to a valid equation, blanks between filled cells included, it is True.
C23_PruningSound ==
    \A i \in 1..Len(get_all_runs(shape)) :
        LET run == get_all_runs(shape)[i]
            completion == get_run_values(shape, solution, run)
            partial == get_run_values(shape, puzzle, run)
        IN (/\ \A j \in 1..Len(run) : completion[j] \in Alphabet
            /\ \A j \in 1..Len(run) : partial[j] \in {None, completion[j]}
            /\ is_valid_equation(completion))
              => could_be_valid_equation(partial)

\* C29: for every puzzle and every max_count >= 1 the value returned by
\* count_solutions(puzzle, max_count) is 0, 1 or max_count: never strictly
\* between 1 and max_count and never greater than max_count.
C29_CountIsZeroOneOrCap ==
    counted # Nothing =>
        FromJust(counted).solutions \in {0, 1, FromJust(counted).max_count}

(***************************************************************************)
(* Properties of the creator (checked under SpecCreate).                   *)
(***************************************************************************)
\* C2: the result of create_puzzle on a solved puzzle, for every min_clues
\* and every removal order, has a solved solution, a clue puzzle with a
\* unique solution, and num_clues >= min_clues or num_clues = total_cells.
C2_CreatorResult ==
    cpc = "done" =>
        LET res == FromJust(created)
        IN /\ is_solved(shape, res.solution)
           /\ has_unique_solution(shape, res.puzzle)
           /\ (res.num_clues >= min_clues \/ res.num_clues = res.total_cells)

\* a result from which the loop removed a cell and stopped at min_clues
C2_Witness ==
    /\ cpc = "done"
    /\ FromJust(created).num_clues < FromJust(created).total_cells
    /\ FromJust(created).num_clues = min_clues
    /\ NumBlank(shape, FromJust(created).puzzle) >= 1

\* C26: for every result of create_puzzle on a solved puzzle (solutions
\* that hold × and ÷ included), find_all_solutions(result.puzzle) returns
\* exactly one puzzle, and its cell mapping is result.solution's.
C26_SolverFindsStoredSolution ==
    cpc = "done" =>
        LET res == FromJust(created)
            found == find_all_solutions_run(shape, res.puzzle, DefaultMaxSolutions).found
        IN /\ Len(found) = 1
           /\ found[1] = res.solution

\* the active cells of g that hold a value in cs
FilledCells(g, cs) == {rc \in ActiveSet(g) : get_cell(g, cs, rc[1], rc[2]) # None}

\* every filled cell of the clue cells holds the value the solution holds
RestrictionOf(g, clue, sol) ==
    \A rc \in FilledCells(g, clue) :
        get_cell(g, clue, rc[1], rc[2]) = get_cell(g, sol, rc[1], rc[2])

\* C27: at every point of the removal loop of create_puzzle and in its
\* result the clue puzzle is a restriction of the solution, the solution is
\* the solved input, never modified, and result.num_clues is the number of
\* filled cells of the returned clue puzzle.
C27_ClueRestrictsSolution ==
    /\ cpc \in {"loop", "done"} =>
          /\ RestrictionOf(shape, puzzle, solution)
          /\ solution = input
    /\ cpc = "done" =>
          LET res == FromJust(created)
          IN /\ RestrictionOf(shape, res.puzzle, res.solution)
             /\ res.solution = input
             /\ res.num_clues = Cardinality(FilledCells(shape, res.puzzle))

\* a result at the end of a loop that removed one cell and restored another
C27_Witness ==
    /\ cpc = "done"
    /\ Len(removed_cells) >= 1
    /\ todo # ActiveSet(shape) \ {removed_cells[i] : i \in 1..Len(removed_cells)}
    /\ FromJust(created).num_clues = Cardinality(FilledCells(shape, FromJust(created).puzzle))
    /\ FromJust(created).num_clues < FromJust(created).total_cells

(***************************************************************************)
(* Properties of generate_solved_puzzle (checked under SpecGen).           *)
(***************************************************************************)
\* C4: whatever generate_solved_puzzle returns, for every shape, attempt
\* budget and candidate order, is None or a puzzle on which is_solved holds.
C4_GeneratedIsSolved ==
    generated # Nothing =>
        \/ FromJust(generated) = Nothing
        \/ is_solved(shape, FromJust(FromJust(generated)))

\* a puzzle was returned for the row of five, after a candidate was
\* rejected and its cell cleared on the way
C4_Witness ==
    /\ gen_pc = "done"
    /\ shape = Row5
    /\ generated # Nothing
    /\ FromJust(generated) # Nothing
    /\ attempts > Len(get_active_cells(shape))
    /\ is_solved(shape, FromJust(FromJust(generated)))

\* C20: every cell value of every puzzle generate_solved_puzzle returns,
\* for every Shape (shapes with active cells in no run included), is a
\* character of the equation alphabet {0-9, +, -, ×, ÷, =}.
C20_GeneratedInAlphabet ==
    (generated # Nothing /\ FromJust(generated) # Nothing) =>
        \A rc \in DOMAIN FromJust(FromJust(generated)) :
            FromJust(FromJust(generated))[rc] \in Alphabet

\* the attempt counter of the running generate_solved_puzzle has exceeded
\* its budget
OverBudget == gen_pc \in {"enter", "loop", "ret"} /\ attempts > max_attempts

\* the step leaves a value in a cell that did not hold it before
PlacesValue ==
    \E rc \in DOMAIN puzzle' :
        rc \notin DOMAIN puzzle \/ puzzle'[rc] # puzzle[rc]

\* C21: once the attempt counter of generate_solved_puzzle exceeds
\* max_attempts, no pending or subsequent solve call places a value in a
\* cell any more: the calls only return failure up to the top level.
C21_OverBudgetPlacesNothing == [][OverBudget => ~PlacesValue]_vars

(***************************************************************************)
(* Properties of two seeded processes (checked under SpecRepro).           *)
(***************************************************************************)
\* C28: two executions of generate_solved_puzzle on the same Shape with the
\* same max_attempts, the same randomize flag and the random source seeded
\* with the same value return identical results, whatever the iteration
\* order of the candidate sets in either process.
C28_ReproducibleFromSeed ==
    (first_run # Nothing /\ gen_pc = "done") => generated = first_run

(***************************************************************************)
(* Properties of the end-to-end scenario (checked under SpecCross).        *)
(***************************************************************************)
\* cross-small: 9 active cells and exactly two runs, the horizontal one then
\* the vertical one, each of length 5, sharing only the centre cell
CrossShapeFacts ==
    LET runs == get_all_runs(cross_small)
    IN /\ Cardinality(ActiveSet(cross_small)) = 9
       /\ Len(runs) = 2
       /\ runs[1] = [i \in 1..5 |-> <<2, i - 1>>]
       /\ runs[2] = [i \in 1..5 |-> <<i - 1, 2>>]
       /\ {runs[1][i] : i \in 1..5} \cap {runs[2][i] : i \in 1..5} = {<<2, 2>>}

\* C22: on cross-small, whenever generate_solved_puzzle returns a puzzle
\* both runs are valid equations, and create_puzzle with min_clues = 3 on
\* that puzzle returns a result with num_clues >= 3 whose clue grid
\* satisfies has_unique_solution.
C22_CrossSmallEndToEnd ==
    (gen_pc = "done" /\ FromJust(generated) # Nothing) =>
        /\ CrossShapeFacts
        /\ \A i \in 1..Len(get_all_runs(shape)) :
              is_run_valid(shape, FromJust(FromJust(generated)), get_all_runs(shape)[i])
        /\ cpc # "raised"
        /\ cpc = "done" =>
              /\ FromJust(created).num_clues >= 3
              /\ has_unique_solution(shape, FromJust(created).puzzle)

\* a puzzle was generated on cross-small and create_puzzle returned a clue
\* puzzle from which the loop removed cells
C22_Witness ==
    /\ shape = cross_small
    /\ gen_pc = "done"
    /\ cpc = "done"
    /\ min_clues = 3
    /\ FromJust(created).solution = FromJust(FromJust(generated))
    /\ FromJust(created).num_clues < 9
    /\ NumBlank(shape, FromJust(created).puzzle) >= 1

(***************************************************************************)
(* Properties of grow_puzzle (checked under SpecGrow, SpecGrowMixed and    *)
(* SpecGrowDefault).                                                       *)
(***************************************************************************)
Returned == grown # Nothing /\ FromJust(grown) # Nothing

ReturnedPuzzle == FromJust(FromJust(grown))

\* the lengths a call asks for
RequestedLengths ==
    IF Len(equation_length) = 2 THEN equation_length[1]..equation_length[2]
    ELSE {equation_length[1]}

CellSet(eq) == {eq.positions[j] : j \in 1..Len(eq.positions)}

\* C5: for every GrowingPuzzle grow_puzzle returns, the Puzzle that
\* grown_puzzle_to_shape_and_solution derives from it is solved: every run
\* of length >= 3 of the derived Shape is a valid equation.
C5_GrownIsSolved ==
    Returned =>
        LET derived == grown_puzzle_to_shape_and_solution(ReturnedPuzzle)
        IN is_solved(derived.grid, derived.cells)

\* C6: every GrowingPuzzle grow_puzzle returns has exactly num_equations
\* entries in equations, each of a requested length, the entries of even
\* index (0-based) horizontal and the entries of odd index vertical.
C6_GrownEquations ==
    Returned =>
        /\ Len(ReturnedPuzzle.equations) = num_equations
        /\ \A i \in 1..Len(ReturnedPuzzle.equations) :
              /\ Len(ReturnedPuzzle.equations[i].positions) \in RequestedLengths
              /\ ReturnedPuzzle.equations[i].direction =
                    (IF (i - 1) % 2 = 0 THEN "horizontal" ELSE "vertical")

\* a puzzle of MaxEquations equations was returned for a length range
C6_Witness ==
    /\ Returned
    /\ Len(equation_length) = 2
    /\ num_equations = MaxEquations
    /\ Len(ReturnedPuzzle.equations) = MaxEquations
    /\ ReturnedPuzzle.equations[2].direction = "vertical"

\* C7: in every GrowingPuzzle grow_puzzle returns, mixed length ranges
\* included, no two distinct placed equations have more than one cell in
\* common.
C7_ShareAtMostOneCell ==
    Returned =>
        \A i \in 1..Len(ReturnedPuzzle.equations) :
            \A j \in (i + 1)..Len(ReturnedPuzzle.equations) :
                Cardinality(CellSet(ReturnedPuzzle.equations[i])
                              \cap CellSet(ReturnedPuzzle.equations[j])) <= 1

\* C18: for every num_equations, every equation_length (a single value or
\* an inclusive range, ranges that hold none of 5, 7, 9 and lengths below 5
\* included) and every max_attempts, grow_puzzle returns a GrowingPuzzle or
\* None: it never raises.
C18_GrowNeverRaises == grow_pc # "raised"

\* the step places an equation: it is appended to puzzle.equations
PlacementStep == grow_pc' = "grow" /\ Len(equations') = Len(equations) + 1

\* the equation the step has placed
PlacedEquation == equations'[Len(equations')]

\* the cell next to the end cell rc of a line of the given direction, one
\* step (-1 or 1) further along the line
Beyond(rc, direction, step) ==
    IF direction = "vertical" THEN <<rc[1] + step, rc[2]>> ELSE <<rc[1], rc[2] + step>>

CrossedByLast ==
    {j \in 1..(Len(equations) - 1) :
        CellSet(equations[j]) \cap CellSet(equations[Len(equations)]) # {}}

C25_CrossesOppositeDigit ==
    [][(PlacementStep /\ equations # <<>>) =>
          LET direction == PlacedEquation.direction
              at == PlacedEquation.positions
          IN \E i \in 1..Len(at) :
                /\ at[i] \in DOMAIN grow_cells
                /\ grow_cells[at[i]] \in DIGIT_CHARS
                /\ opposite_of(direction) \in cell_directions[at[i]]
                /\ direction \notin cell_directions[at[i]]
                /\ \E j \in 1..Len(equations) :
                      /\ equations[j].direction = opposite_of(direction)
                      /\ at[i] \in CellSet(equations[j])]_vars

\* a fourth equation was placed across an earlier one of the other
\* orientation
C25_Witness ==
    /\ grow_pc = "grow"
    /\ Len(equations) >= 4
    /\ \E j \in CrossedByLast :
          equations[j].direction = opposite_of(equations[Len(equations)].direction)

(***************************************************************************)
(* Properties of Shape (checked under SpecShape).                          *)
(***************************************************************************)
\* the cell <<r, c>> is inside the grid and marked
ActiveAt(g, r, c) ==
    /\ r + 1 \in DOMAIN g
    /\ c + 1 \in DOMAIN g[r + 1]
    /\ g[r + 1][c + 1]

\* the maximal horizontal segments of at least three active cells: cells
\* <<r, a>> .. <<r, b>> with an inactive cell or the edge at both ends
HorizontalSegments(g) ==
    {[i \in 1..(t[3] - t[2] + 1) |-> <<t[1], t[2] + i - 1>>] :
        t \in {u \in (0..MaxShapeRows) \X (0..MaxShapeCols) \X (0..MaxShapeCols) :
                  /\ u[3] - u[2] + 1 >= 3
                  /\ \A c \in u[2]..u[3] : ActiveAt(g, u[1], c)
                  /\ ~ActiveAt(g, u[1], u[2] - 1)
                  /\ ~ActiveAt(g, u[1], u[3] + 1)}}

VerticalSegments(g) ==
    {[i \in 1..(t[3] - t[2] + 1) |-> <<t[2] + i - 1, t[1]>>] :
        t \in {u \in (0..MaxShapeCols) \X (0..MaxShapeRows) \X (0..MaxShapeRows) :
                  /\ u[3] - u[2] + 1 >= 3
                  /\ \A r \in u[2]..u[3] : ActiveAt(g, r, u[1])
                  /\ ~ActiveAt(g, u[2] - 1, u[1])
                  /\ ~ActiveAt(g, u[3] + 1, u[1])}}

RunsReturned == last_call # Nothing /\ FromJust(last_call).op = "get_all_runs"

SolvedAnswered ==
    /\ last_call # Nothing
    /\ FromJust(last_call).op = "is_solved"
    /\ FromJust(last_call).value = TRUE

\* C14: whenever is_solved() of a puzzle is true, is_run_valid(r) is true
\* for every run r of its Shape.
C14_SolvedRunsValid ==
    SolvedAnswered =>
        LET pz == PuzzleNamed(FromJust(last_call).on)
            runs == get_all_runs(GridOf(pz))
        IN \A i \in 1..Len(runs) : is_run_valid(GridOf(pz), CellsOf(pz), runs[i])

\* is_solved() answered true on the row 1=1, which is a run of the Shape
C14_Witness ==
    /\ SolvedAnswered
    /\ FromJust(last_call).on = "p"
    /\ Len(get_all_runs(GridOf(FromJust(orig)))) = 1
    /\ get_run_values(GridOf(FromJust(orig)), CellsOf(FromJust(orig)),
                      get_all_runs(GridOf(FromJust(orig)))[1]) = <<"1", "=", "1">>

\* C15: after any sequence of set_cell calls, with arbitrary coordinates
\* and values, every key of a puzzle's cell mapping is an active cell of
\* the Shape the puzzle is bound to.
C15_KeysAreActive ==
    orig # Nothing =>
        \A x \in PuzzleNames :
            \A rc \in DOMAIN CellsOf(PuzzleNamed(x)) :
                is_active(GridOf(PuzzleNamed(x)), rc[1], rc[2])

\* q = p.copy() and the set_cell calls that follow it
CopyStep ==
    Copy => /\ CellsOf(FromJust(copied))' = CellsOf(FromJust(orig))
            /\ FromJust(copied)'.cells # FromJust(orig).cells
            /\ FromJust(copied)'.shape = FromJust(orig).shape

\* the step is x.set_cell(...): it changes no dict but the one of x
SetCellStep(x) ==
    /\ \A i \in DOMAIN dict_heap : i # PuzzleNamed(x).cells => dict_heap'[i] = dict_heap[i]
    /\ SetCellOn(x)

\* a step that changes the values of p is no set_cell on q, and a step that
\* changes the values of q is no set_cell on p
SetCellAfterCopy ==
    copied # Nothing =>
        /\ CellsOf(FromJust(orig))' # CellsOf(FromJust(orig)) => ~SetCellStep("q")
        /\ CellsOf(FromJust(copied))' # CellsOf(FromJust(copied)) => ~SetCellStep("p")
        /\ FromJust(copied)'.shape = FromJust(orig)'.shape
        /\ UNCHANGED shape_heap

\* C16: q = p.copy() has the cell values of p in a mapping of its own:
\* every set_cell on q leaves every cell value of p unchanged, every
\* set_cell on p leaves those of q unchanged, and both puzzles keep
\* referring to the same, unmodified Shape.
C16_CopyIsIndependent == [][CopyStep /\ SetCellAfterCopy]_vars

\* after the copy the two mappings differ in an active cell: q holds a
\* value in cell (0, 0) and p holds another one
C16_Witness ==
    /\ copied # Nothing
    /\ <<0, 0>> \in DOMAIN CellsOf(FromJust(copied))
    /\ <<0, 0>> \in DOMAIN CellsOf(FromJust(orig))
    /\ CellsOf(FromJust(copied))[<<0, 0>>] # CellsOf(FromJust(orig))[<<0, 0>>]

(***************************************************************************)
(* Frame properties of the solver (checked under SpecPuzzle).              *)
(***************************************************************************)
\* the step is a call of count_solutions, has_unique_solution or
\* find_all_solutions on p: it records what the call returned
SearchReturns ==
    /\ last_call' # Nothing
    /\ FromJust(last_call').op \in
           {"count_solutions", "has_unique_solution", "find_all_solutions"}

\* C17: count_solutions, has_unique_solution and find_all_solutions leave
\* the puzzle they are given unchanged: the cell mapping when the search
\* returns, exhausted or cut short by the cap, equals the mapping before
\* the call.
C17_SearchLeavesPuzzle ==
    [][SearchReturns => CellsOf(FromJust(orig))' = CellsOf(FromJust(orig))]_vars

\* a search cut short by the cap has returned: find_all_solutions with cap
\* 1 on the row _=_ , which has several completions
C17_Witness ==
    /\ last_call # Nothing
    /\ FromJust(last_call).op = "find_all_solutions"
    /\ FromJust(last_call).on = 1
    /\ Len(FromJust(last_call).value) = 1
    /\ DOMAIN CellsOf(FromJust(orig)) = {<<0, 1>>}
    /\ CellsOf(FromJust(orig))[<<0, 1>>] = "="
    /\ count_solutions(GridOf(FromJust(orig)), CellsOf(FromJust(orig)), 2) = 2

(***************************************************************************)
(* Error handling of the creator (checked under SpecCreate).               *)
(***************************************************************************)
\* every active cell of g holds a value in cs and every run reads a valid
\* equation
AllFilledAndValid(g, cs) ==
    /\ ActiveSet(g) \subseteq DOMAIN cs
    /\ \A i \in 1..Len(get_all_runs(g)) :
          is_valid_equation([j \in 1..Len(get_all_runs(g)[i]) |->
                                cs[get_all_runs(g)[i][j]]])

\* C19: create_puzzle on a puzzle that is not solved (a blank active cell
\* or an invalid run) is rejected at once with an error: every step from
\* such an input leaves the input's cells unchanged, builds no result,
\* makes no copy and enters no removal loop (where the uniqueness search
\* runs); the call can only end as raised.
C19_UnsolvedRejected ==
    [][~AllFilledAndValid(shape, input) =>
          /\ cpc' \in {"idle", "raised"}
          /\ input' = input
          /\ created' = Nothing
          /\ puzzle' = EmptyCells
          /\ solution' = EmptyCells
          /\ removed_cells' = <<>>]_vars

\* the call has raised on an input with a blank active cell
C19_Witness ==
    /\ cpc = "raised"
    /\ ActiveSet(shape) \ DOMAIN input # {}
    /\ created = Nothing
    /\ puzzle = EmptyCells

\* the call has raised on a complete input with an invalid run
C19_WitnessInvalidRun ==
    /\ cpc = "raised"
    /\ ActiveSet(shape) \subseteq DOMAIN input
    /\ ~AllFilledAndValid(shape, input)
    /\ created = Nothing

====
